---- MODULE Spec2Model ----
(***************************************************************************)
(* A model of slack2discord: the export parser (SlackParser.parse_message, *)
(* which places each exported record into the per-channel message dict)    *)
(* and the Discord client (DiscordClient.post_messages, which resolves the *)
(* destination channels and posts the parsed messages through the retry    *)
(* wrapper discord_retry).                                                 *)
(*                                                                         *)
(* Four specifications share the variables:                                *)
(*   SpecParser    - parse_file feeding records to parse_message           *)
(*   Spec          - the posting task of the Discord client                *)
(*   SpecLive      - the posting task over smaller exports, with fairness  *)
(*   SpecFunctions - one function (channel names, the channel map, the     *)
(*                   config, markdown, the calls for one message, names,   *)
(*                   entities, the downloader) applied to one argument     *)
(***************************************************************************)
EXTENDS Integers, Sequences, FiniteSets, TLC

VARIABLES
    \* ---- parser (slack2discord/parser.py) ----
    records,            \* the records json.load() has handed to parse_message so far
    channel_msgs_dict,  \* dict[float, tuple[ParsedMessage, Optional[ThreadType]]]
    parser_pc,          \* "parsing", or "failed" once parse_message raised
    \* ---- client (slack2discord/client.py) ----
    parsed_messages,    \* DiscordClient.parsed_messages
    dry_run,            \* DiscordClient.dry_run
    create_channels,    \* DiscordClient.create_channels
    guilds,             \* the servers get_guild_maybe_by_name finds (their number)
    text_channels,      \* the server: how many text channels carry each name
    channels,           \* DiscordClient.channels: name -> handle
    pc,                 \* position of the posting task (post_messages)
    loop,               \* position inside post_messages / post_messages_to_channel
    retry,              \* the state of the running discord_retry wrapper
    in_flight,          \* remote calls issued and not yet answered
    posted,             \* history: every wrapped call that returned, in order
    closes,             \* history: number of times close() was invoked
    caught,             \* history: the exception post_messages caught ("" if none)
    cancelled,          \* history: where a cancellation was delivered ("" if none)
    tasks,              \* history: number of post_messages tasks created
    ready_events,       \* history: number of times the ready event was dispatched
    \* ---- functions applied on their own (SpecFunctions) ----
    fn,                 \* the function that was applied ("" before)
    arg,                \* its argument
    result              \* what it returned

parser_vars == <<records, channel_msgs_dict, parser_pc>>
client_vars == <<parsed_messages, dry_run, create_channels, guilds, text_channels, channels,
                 pc, loop, retry, in_flight, posted, closes, caught, cancelled,
                 tasks, ready_events>>
connection_vars == <<tasks, ready_events>>
\* what the task post_messages reads and writes; a step that leaves it
\* unchanged is a step of the connection (an on_ready event)
task_vars == <<parsed_messages, dry_run, create_channels, guilds, text_channels, channels,
               pc, loop, retry, in_flight, posted, closes, caught, cancelled>>
fn_vars == <<fn, arg, result>>
vars == <<records, channel_msgs_dict, parser_pc,
          parsed_messages, dry_run, create_channels, guilds, text_channels, channels,
          pc, loop, retry, in_flight, posted, closes, caught, cancelled,
          tasks, ready_events,
          fn, arg, result>>

(***************************************************************************)
(* Bounds of the model.                                                    *)
(***************************************************************************)
\* timestamps of one channel are 1..MaxTs
MaxTs == 4
\* records handed to parse_message for one channel
MaxRecords == 4
\* messages (roots and replies) of the whole export the client posts
MaxMsgs == 3
\* the ready events of one run
MaxReady == 2
\* messages of that export that carry an attached file
MaxFiles == 1
MaxSpecial == 1
MaxEscaped == 4
MaxDownloads == 3
\* failures of one wrapped call before it succeeds
MaxFail == 2
\* servers that match in get_guild_maybe_by_name
MaxGuilds == 2
\* messages of the exports of SpecLive
MaxLiveMsgs == 2
\* subdirectories of an export tree
MaxSubdirs == 2
\* lines of a channel file
MaxLines == 2
\* characters of a channel name that are enumerated
MaxHead == 3

(***************************************************************************)
(* Python dicts keep insertion order.  A dict is the sequence of its items *)
(* [k, v] in insertion order, with no key twice.                           *)
(***************************************************************************)
EmptyDict == <<>>

DictKeys(d) == [i \in 1..Len(d) |-> d[i].k]

KeySet(d) == {d[i].k : i \in 1..Len(d)}

DictHas(d, key) == \E i \in 1..Len(d) : d[i].k = key

DictGet(d, key) == d[CHOOSE i \in 1..Len(d) : d[i].k = key].v

\* d[key] = value: a present key keeps its position, a new key goes last
DictSet(d, key, value) ==
    IF DictHas(d, key)
    THEN [i \in 1..Len(d) |-> IF d[i].k = key THEN [k |-> key, v |-> value] ELSE d[i]]
    ELSE Append(d, [k |-> key, v |-> value])

\* insert x into the ascending sequence s
RECURSIVE InsertSorted(_, _)
InsertSorted(s, x) ==
    IF s = <<>> THEN <<x>>
    ELSE IF x <= Head(s) THEN <<x>> \o s
    ELSE <<Head(s)>> \o InsertSorted(Tail(s), x)

\* mutant of sorted: the keys in the order the dict holds them
insertion_order(s) == s

\* Python's sorted() on a sequence of numbers
RECURSIVE sorted(_)
sorted(s) == IF s = <<>> THEN <<>> ELSE InsertSorted(sorted(Tail(s)), Head(s))

(***************************************************************************)
(* slack2discord/parser.py                                                 *)
(***************************************************************************)
NoName == ""
\* what dict.get returns for a key that is not there (None)
NoValue == "None"
\* message.get('user_profile') when it is None or an empty dict: no
\* 'display_name', no 'real_name'
NoProfile == [display_name |-> NoValue, real_name |-> NoValue]
NoTs == 0
PlaceholderText == "_Unable to find start of exported thread_"
Timestamps == 1..MaxTs

\* The keys add_file reads from a file record of the export
FileKeys == {"id", "name", "url_private"}

\* The file records of a message: a hosted file with its keys, of which at
\* most one is not there, or the tombstone of a deleted file, which has its
\* id only.
FileDicts ==
    {f \in [mode : {"hosted", "tombstone"}, keys : SUBSET FileKeys] :
        IF f.mode = "tombstone"
        THEN f.keys = {"id"}
        ELSE Cardinality(f.keys) >= Cardinality(FileKeys) - 1}

\* the 'files' of a record; <<>> also stands for a record with no 'files'
FileLists == {<<>>} \cup {<<f>> : f \in FileDicts}

\* The raw records of an export file, as far as parse_message reads them:
\* 'type', 'ts', 'user', 'user_profile', 'text', 'files', and the presence of
\* 'replies' and 'thread_ts'.  ts = NoTs stands for a record with no 'ts' key,
\* thread_ts = NoTs for a record with no 'thread_ts' key.
RawMessages ==
    [type : {"message", "channel_join"},
     ts : Timestamps \cup {NoTs},
     user : {"U1"},
     user_profile : {NoProfile},
     text : {"text"},
     files : FileLists,
     replies : BOOLEAN,
     thread_ts : Timestamps \cup {NoTs}]

\* the characters of the strings that user ids are, and of what is left of
\* them without their first character
StrChars ==
    ("U1" :> <<"U", "1">>) @@ ("W1" :> <<"W", "1">>) @@ ("U" :> <<"U">>)
    @@ ("1" :> <<"1">>) @@ ("" :> <<>>)

\* str.startswith(prefix) for a prefix of one character
startswith(str, prefix) == StrChars[str] # <<>> /\ Head(StrChars[str]) = prefix

\* str[1:]
from_1(str) == CHOOSE rest \in DOMAIN StrChars : StrChars[rest] = Tail(StrChars[str])

\* Python's truth value of an optional string: None and '' are false
is_true(str) == str \notin {NoValue, ""}

\* self.users when no users file was parsed
NoUsers == <<>>

\* mutant of get_name: the names in the message come before the users dict
get_name_profile_first(users, message) ==
    LET user_id == message.user
        user_profile == message.user_profile
    IN  IF user_profile # NoProfile /\ is_true(user_profile.display_name)
        THEN user_profile.display_name
        ELSE IF user_profile # NoProfile /\ is_true(user_profile.real_name)
        THEN user_profile.real_name
        ELSE IF user_id \in DOMAIN users
        THEN users[user_id]
        ELSE IF is_true(user_id)
        THEN IF startswith(user_id, "U") THEN from_1(user_id) ELSE user_id
        ELSE "???"

\* SlackParser.get_name: the name in self.users, else the display_name or
\* the real_name of the message's user_profile, else the user id, without
\* its leading U when it has one, else '???'
get_name(users, message) ==
    LET user_id == message.user
        user_profile == message.user_profile
    IN  IF user_id \in DOMAIN users
        THEN users[user_id]
        ELSE IF user_profile # NoProfile /\ is_true(user_profile.display_name)
        THEN user_profile.display_name
        ELSE IF user_profile # NoProfile /\ is_true(user_profile.real_name)
        THEN user_profile.real_name
        ELSE IF is_true(user_id)
        THEN IF startswith(user_id, "U") THEN from_1(user_id) ELSE user_id
        ELSE "???"

\* SlackParser.format_message: the header carries the time and, when a name
\* is given, the name; the body follows
format_message(timestamp, name, message) ==
    [time |-> timestamp, name |-> name, body |-> message]

\* ParsedMessage(text): the text and the lists of links and of attached
\* files, empty at first
ParsedMessage(text) == [text |-> text, links |-> <<>>, files |-> <<>>]

\* MessageFile(id, name, url): the file and its not_found flag, which is
\* False until the downloader sets it (name and url are not modelled)
MessageFile(id, not_found) == [id |-> id, not_found |-> not_found]

\* ParsedMessage.add_file reads file_dict['id'], file_dict['name'] and
\* file_dict['url_private']: a KeyError when one of them is not there
add_file_raises(file_dict) == ~(FileKeys \subseteq file_dict.keys)

\* ParsedMessage.add_file: the file is appended to self.files; when it
\* raises, nothing was appended
add_file(parsed_message, file_dict) ==
    IF add_file_raises(file_dict)
    THEN parsed_message
    ELSE [parsed_message EXCEPT !.files = Append(@, MessageFile("F1", FALSE))]

\* parse_message, the loop over message['files']: a tombstone is ignored,
\* every other file is added
RECURSIVE add_files(_, _)
add_files(parsed_message, files) ==
    IF files = <<>>
    THEN parsed_message
    ELSE add_files(IF Head(files).mode = "tombstone"
                   THEN parsed_message
                   ELSE add_file(parsed_message, Head(files)),
                   Tail(files))

\* does the loop over message['files'] raise?
add_files_raises(files) ==
    \E i \in 1..Len(files) :
        files[i].mode # "tombstone" /\ add_file_raises(files[i])

\* a value of channel_msgs_dict: (ParsedMessage, Optional[ThreadType]);
\* has_thread = FALSE is the None thread
RootEntry(msg, has_thread, thread) == [msg |-> msg, has_thread |-> has_thread, thread |-> thread]

\* parse_message, the branch of a record with 'replies': the head of a thread
PlaceThreadHead(d, timestamp, parsed_message) ==
    DictSet(d, timestamp, RootEntry(parsed_message, TRUE, EmptyDict))

\* parse_message, the synthetic root of a thread whose head was not found
SyntheticRoot(thread_timestamp) ==
    RootEntry(ParsedMessage(format_message(thread_timestamp, NoName, PlaceholderText)),
              TRUE, EmptyDict)

\* mutant of WithRoot: the synthetic root is stored whether or not the
\* timestamp is already in the dict
WithRootAlways(d, thread_timestamp) ==
    DictSet(d, thread_timestamp, SyntheticRoot(thread_timestamp))

\* parse_message, the branch of a record with 'thread_ts': get or create the
\* root, then add the message to its thread
WithRoot(d, thread_timestamp) ==
    IF ~DictHas(d, thread_timestamp)
    THEN DictSet(d, thread_timestamp, SyntheticRoot(thread_timestamp))
    ELSE d

\* mutant of PlaceReply: the reply is keyed by the thread's timestamp
PlaceReplyAtThreadTs(d, thread_timestamp, timestamp, parsed_message) ==
    LET d1 == WithRoot(d, thread_timestamp)
        root == DictGet(d1, thread_timestamp)
    IN  DictSet(d1, thread_timestamp,
                RootEntry(root.msg, TRUE,
                          DictSet(root.thread, thread_timestamp, parsed_message)))

PlaceReply(d, thread_timestamp, timestamp, parsed_message) ==
    LET d1 == WithRoot(d, thread_timestamp)
        root == DictGet(d1, thread_timestamp)
    IN  DictSet(d1, thread_timestamp,
                RootEntry(root.msg, TRUE, DictSet(root.thread, timestamp, parsed_message)))

\* parse_message, the last branch: a message with no thread
PlaceStandalone(d, timestamp, parsed_message) ==
    DictSet(d, timestamp, RootEntry(parsed_message, FALSE, EmptyDict))

\* parse_message goes past its two early returns: the record is of type
\* 'message' and has a 'ts'
is_parsed(message) == message.type = "message" /\ message.ts # NoTs

\* the assertion of parse_message fails (assert this_thread is not None)
assert_raises(message, d) ==
    /\ ~message.replies
    /\ message.thread_ts # NoTs
    /\ DictHas(d, message.thread_ts)
    /\ ~DictGet(d, message.thread_ts).has_thread

\* does parse_message raise on this record?
parse_message_raises(message, d) ==
    /\ is_parsed(message)
    /\ add_files_raises(message.files) \/ assert_raises(message, d)

\* parse_message past its early returns: the message is built and placed
place_message(message, d) ==
    LET timestamp == message.ts
        parsed_message ==
            add_files(
                ParsedMessage(format_message(timestamp, get_name(NoUsers, message), message.text)),
                message.files)
    IN  IF message.replies
        THEN PlaceThreadHead(d, timestamp, parsed_message)
        ELSE IF message.thread_ts # NoTs
        THEN PlaceReply(d, message.thread_ts, timestamp, parsed_message)
        ELSE PlaceStandalone(d, timestamp, parsed_message)

\* mutant of parse_message: records of every type are placed
parse_message_any_type(message, d) ==
    IF message.ts = NoTs THEN d
    ELSE place_message(message, d)

\* parse_message: the dict after the record was placed; a record of another
\* type, or with no 'ts', is logged and the dict is as it was
parse_message(message, d) ==
    IF message.type # "message" THEN d
    ELSE IF message.ts = NoTs THEN d
    ELSE place_message(message, d)

\* the timestamps of the records read so far
SeenTs == {records[i].ts : i \in 1..Len(records)} \ {NoTs}

is_skipped(message) == ~is_parsed(message)
has_files(message) == message.files # <<>>
is_special(message) == is_skipped(message) \/ has_files(message)

\* how many of the records read so far have files or are skipped
SpecialRecords == Cardinality({i \in 1..Len(records) : is_special(records[i])})

\* The records the next array element can be in SpecParser: a record whose
\* 'ts', when it has one, no earlier record of the channel has; the head of
\* a thread carries its own timestamp as 'thread_ts' (parse_message does not
\* read it there).  At most MaxSpecial of the records of a file have files,
\* are of another type or have no 'ts'; the records of another type or with
\* no 'ts' have neither files nor a thread.
NextRecords ==
    {m \in RawMessages :
        /\ m.replies => m.thread_ts = m.ts
        /\ is_skipped(m) => m.files = <<>> /\ ~m.replies /\ m.thread_ts = NoTs
        /\ m.ts \notin SeenTs
        /\ is_special(m) => SpecialRecords < MaxSpecial}

\* the state of the client, which the parser leaves alone
\* no function is being applied on its own
FnIdle ==
    /\ fn = ""
    /\ arg = <<>>
    /\ result = <<>>

ClientIdle ==
    /\ parsed_messages = <<>>
    /\ dry_run = FALSE
    /\ create_channels = FALSE
    /\ guilds = 0
    /\ text_channels = <<>>
    /\ channels = <<>>
    /\ pc = "idle"
    /\ loop = <<>>
    /\ retry = <<>>
    /\ in_flight = {}
    /\ posted = <<>>
    /\ closes = 0
    /\ caught = ""
    /\ cancelled = ""
    /\ tasks = 0
    /\ ready_events = 0

\* parse_channel: a fresh channel_msgs_dict, no record read yet
InitParser ==
    /\ records = <<>>
    /\ channel_msgs_dict = EmptyDict
    /\ parser_pc = "parsing"
    /\ ClientIdle
    /\ FnIdle

\* parse_file: the loop hands the next record to parse_message, which returns
ParseRecord ==
    /\ parser_pc = "parsing"
    /\ Len(records) < MaxRecords
    /\ \E message \in NextRecords :
        /\ ~parse_message_raises(message, channel_msgs_dict)
        /\ records' = Append(records, message)
        /\ channel_msgs_dict' = parse_message(message, channel_msgs_dict)
    /\ UNCHANGED <<parser_pc>>
    /\ UNCHANGED <<client_vars, fn_vars>>

\* parse_file: parse_message raises (the assertion on the thread fails), the
\* exception leaves parse() and the run ends
ParseRaise ==
    /\ parser_pc = "parsing"
    /\ Len(records) < MaxRecords
    /\ \E message \in NextRecords :
        /\ parse_message_raises(message, channel_msgs_dict)
        /\ records' = Append(records, message)
    /\ parser_pc' = "failed"
    /\ UNCHANGED <<channel_msgs_dict>>
    /\ UNCHANGED <<client_vars, fn_vars>>

NextParser == ParseRecord \/ ParseRaise

SpecParser == InitParser /\ [][NextParser]_vars

(***************************************************************************)
(* slack2discord/message.py                                                *)
(***************************************************************************)

\* the most Embeds a send to Discord can carry
MAX_DISCORD_EMBEDS == 10

\* MessageLink: of its fields the link it points to
MessageLink(title_link) == [title_link |-> title_link]

\* discord.Embed(title=..., url=link.title_link, description=...)
Embed(link) == [url |-> link.title_link]

\* mutant of get_discord_send_kwargs: an Embed for every link
get_discord_send_kwargs_all(msg) ==
    [content |-> msg.text,
     embeds |-> [i \in 1..Len(msg.links) |-> Embed(msg.links[i])]]

\* ParsedMessage.get_discord_send_kwargs: the content of the send and its
\* embeds, one for each of the first MAX_DISCORD_EMBEDS links (<<>> stands
\* for the None of a message without links)
get_discord_send_kwargs(msg) ==
    LET kept == IF Len(msg.links) <= MAX_DISCORD_EMBEDS
                THEN Len(msg.links) ELSE MAX_DISCORD_EMBEDS
    IN  [content |-> msg.text,
         embeds |-> [i \in 1..kept |-> Embed(msg.links[i])]]

\* mutant of get_discord_add_files_args: every file, found or not
get_discord_add_files_args_all(msg) ==
    [i \in 1..Len(msg.files) |-> msg.files[i].id]

\* ParsedMessage.get_discord_add_files_args: the files not flagged not found,
\* in their order
get_discord_add_files_args(msg) ==
    LET found(f) == ~f.not_found
        kept == SelectSeq(msg.files, found)
    IN  [i \in 1..Len(kept) |-> kept[i].id]

(***************************************************************************)
(* The exports handed to the client: what SlackParser.parse leaves in      *)
(* parsed_messages, a dict from channel name to channel_msgs_dict.         *)
(***************************************************************************)
ChannelNames == <<"general", "random">>

\* every order of the elements of S
Perms(S) ==
    {q \in [1..Cardinality(S) -> S] : \A i, j \in 1..Cardinality(S) : i # j => q[i] # q[j]}

\* the elements of the sequence ord that lie in S, in ord's order
Restrict(ord, S) == LET in(x) == x \in S IN SelectSeq(ord, in)

\* the message of timestamp ts, with a file when ts is in F
ExportedMessage(ts, F) ==
    [text |-> format_message(ts, "1", "text"),
     links |-> <<>>,
     files |-> IF ts \in F THEN <<MessageFile("F1", FALSE)>> ELSE <<>>]

\* the channel_msgs_dict with roots R, each reply c under root par[c], the
\* roots in th carrying a thread dict, everything inserted in the order ord
MakeChannelDict(R, par, th, ord, F) ==
    LET roots == Restrict(ord, R)
        thread(r) ==
            LET kids == Restrict(ord, {c \in DOMAIN par : par[c] = r})
            IN  [i \in 1..Len(kids) |-> [k |-> kids[i], v |-> ExportedMessage(kids[i], F)]]
    IN  [i \in 1..Len(roots) |->
            [k |-> roots[i],
             v |-> RootEntry(ExportedMessage(roots[i], F), roots[i] \in th, thread(roots[i]))]]

\* every channel_msgs_dict of n messages with timestamps 1..n
ChannelDicts(n) ==
    UNION {
        UNION {
            {MakeChannelDict(R, par, th, ord, F) :
                th \in {t \in SUBSET R : \A c \in DOMAIN par : par[c] \in t},
                ord \in Perms(1..n),
                F \in {f \in SUBSET (1..n) : Cardinality(f) <= MaxFiles}}
            : par \in [(1..n) \ R -> R]}
        : R \in (SUBSET (1..n)) \ {{}}}

\* the messages of a channel_msgs_dict that carry files
RECURSIVE FileBearing(_)
FileBearing(d) ==
    IF d = <<>> THEN 0
    ELSE LET e == Head(d).v
             own == IF Len(e.msg.files) > 0 THEN 1 ELSE 0
             inThread == Cardinality({i \in 1..Len(e.thread) : Len(e.thread[i].v.files) > 0})
         IN  own + inThread + FileBearing(Tail(d))

\* the exports: no channel, one channel, or two channels, of at most max
\* messages and at most MaxFiles file-bearing messages in all
ExportsOf(max) ==
    {<<>>}
    \cup {<<[k |-> ChannelNames[1], v |-> d]>> : d \in UNION {ChannelDicts(n) : n \in 1..max}}
    \cup UNION {
            {e \in {<<[k |-> ChannelNames[1], v |-> d1], [k |-> ChannelNames[2], v |-> d2]>> :
                        d1 \in ChannelDicts(n[1]), d2 \in ChannelDicts(n[2])} :
                FileBearing(e[1].v) + FileBearing(e[2].v) <= MaxFiles}
            : n \in {m \in (1..max) \X (1..max) : m[1] + m[2] <= max}}

Exports == ExportsOf(MaxMsgs)

(***************************************************************************)
(* slack2discord/client.py: the calls of post_messages_to_channel          *)
(***************************************************************************)
NoContent == [time |-> 0, name |-> "", body |-> ""]
NoHandle == "None"

\* One call of a coroutine of the client: the coroutine, the channel, root
\* and reply it is made for, and its arguments (target_none: the object it
\* is called on is None; content: the kwargs sent; files: the files added).
Call(op, chan, ts, reply, target_none, content, files) ==
    [op |-> op, chan |-> chan, ts |-> ts, reply |-> reply,
     target_none |-> target_none, content |-> content, files |-> files]

\* the calls for the replies of one thread, for the reply timestamps left
RECURSIVE ThreadCalls(_, _, _, _, _)
ThreadCalls(chan, ts, thread, keys, dry) ==
    IF keys = <<>> THEN <<>>
    ELSE LET timestamp_in_thread == Head(keys)
             thread_message == DictGet(thread, timestamp_in_thread)
         IN  <<Call("send_msg_to_thread", chan, ts, timestamp_in_thread, dry,
                    get_discord_send_kwargs(thread_message), <<>>)>>
             \o (IF Len(thread_message.files) > 0
                 THEN <<Call("add_files_to_message", chan, ts, timestamp_in_thread, dry,
                             NoContent, get_discord_add_files_args(thread_message))>>
                 ELSE <<>>)
             \o ThreadCalls(chan, ts, thread, Tail(keys), dry)

\* mutant of RootCalls: files are added to every root sent, also to one
\* that has no files
RootCallsAddingAlways(chan, handle, timestamp, entry, dry) ==
    LET message == entry.msg
        thread == entry.thread
    IN  <<Call("send_msg_to_channel", chan, timestamp, 0, handle = NoHandle,
               get_discord_send_kwargs(message), <<>>),
          Call("add_files_to_message", chan, timestamp, 0, dry,
               NoContent, get_discord_add_files_args(message))>>
        \o (IF entry.has_thread /\ Len(thread) > 0
            THEN <<Call("create_thread", chan, timestamp, 0, dry, NoContent, <<>>)>>
                 \o ThreadCalls(chan, timestamp, thread, sorted(DictKeys(thread)), dry)
            ELSE <<>>)

\* the body of the loop over the roots: the calls for one root
RootCalls(chan, handle, timestamp, entry, dry) ==
    LET message == entry.msg
        thread == entry.thread
    IN  <<Call("send_msg_to_channel", chan, timestamp, 0, handle = NoHandle,
               get_discord_send_kwargs(message), <<>>)>>
        \o (IF Len(message.files) > 0
            THEN <<Call("add_files_to_message", chan, timestamp, 0, dry,
                        NoContent, get_discord_add_files_args(message))>>
            ELSE <<>>)
        \o (IF entry.has_thread /\ Len(thread) > 0
            THEN <<Call("create_thread", chan, timestamp, 0, dry, NoContent, <<>>)>>
                 \o ThreadCalls(chan, timestamp, thread, sorted(DictKeys(thread)), dry)
            ELSE <<>>)

\* mutant of ChannelCallsFrom: the loop ends after the first root
ChannelCallsFirstOnly(chan, handle, d, keys, dry) ==
    IF keys = <<>> THEN <<>>
    ELSE RootCalls(chan, handle, Head(keys), DictGet(d, Head(keys)), dry)

\* post_messages_to_channel: the calls for the root timestamps left
RECURSIVE ChannelCallsFrom(_, _, _, _, _)
ChannelCallsFrom(chan, handle, d, keys, dry) ==
    IF keys = <<>> THEN <<>>
    ELSE RootCalls(chan, handle, Head(keys), DictGet(d, Head(keys)), dry)
         \o ChannelCallsFrom(chan, handle, d, Tail(keys), dry)

\* post_messages_to_channel: all its calls, in the order it makes them
post_messages_to_channel(chan, handle, d, dry) ==
    ChannelCallsFrom(chan, handle, d, sorted(DictKeys(d)), dry)

\* the calls of the i-th channel of parsed_messages
CallsOfChannel(i) ==
    post_messages_to_channel(parsed_messages[i].k,
                             DictGet(channels, parsed_messages[i].k),
                             parsed_messages[i].v, dry_run)

\* the loop position after position l: the next call of the channel, or the
\* first call of the next channel that has one, or past the last channel
RECURSIVE FirstCallFrom(_)
FirstCallFrom(i) ==
    IF i > Len(parsed_messages) THEN [chan |-> i, step |-> 0]
    ELSE IF Len(CallsOfChannel(i)) > 0 THEN [chan |-> i, step |-> 1]
    ELSE FirstCallFrom(i + 1)

NextPosition(l) ==
    IF l.step < Len(CallsOfChannel(l.chan))
    THEN [chan |-> l.chan, step |-> l.step + 1]
    ELSE FirstCallFrom(l.chan + 1)

CurrentCall == CallsOfChannel(loop.chan)[loop.step]

(***************************************************************************)
(* discord_retry                                                           *)
(***************************************************************************)
retry_backoff == <<1, 5, 30>>
\* the retry_after a rate-limited response carries
RetryAfter == 7

Min(a, b) == IF a <= b THEN a ELSE b

NoCall == Call("", "", 0, 0, FALSE, NoContent, <<>>)
RetryIdle == [phase |-> "idle", retry_count |-> 0, retry_sec |-> 0, args |-> NoCall,
              invocations |-> 0, waits |-> 0]

\* mutant of RetryEnter: the count of retries is not started afresh
RetryEnterCounted(call) ==
    [phase |-> "calling", retry_count |-> 1, retry_sec |-> 0, args |-> call,
     invocations |-> 1, waits |-> 0]

\* discord_retry is entered with the call's arguments and calls the coroutine
RetryEnter(call) ==
    [phase |-> "calling", retry_count |-> 0, retry_sec |-> 0, args |-> call,
     invocations |-> 1, waits |-> 0]

\* mutant of RetryOnException: past its end the schedule starts over
RetryOnExceptionWrapping(r, exc) ==
    LET retry_count == r.retry_count + 1
        retry_idx == (retry_count - 1) % Len(retry_backoff)
        retry_sec == IF exc = "RateLimited" THEN RetryAfter ELSE retry_backoff[retry_idx + 1]
    IN  [r EXCEPT !.phase = "sleeping", !.retry_count = retry_count,
                  !.retry_sec = retry_sec, !.waits = r.waits + 1]

\* mutant of RetryOnException: the wrapper gives up at the second failure
RetryOnExceptionGivingUp(r, exc) ==
    LET retry_count == r.retry_count + 1
        retry_idx == Min(retry_count - 1, Len(retry_backoff) - 1)
        retry_sec == IF exc = "RateLimited" THEN RetryAfter ELSE retry_backoff[retry_idx + 1]
    IN  IF retry_count >= 2 THEN RetryIdle
        ELSE [r EXCEPT !.phase = "sleeping", !.retry_count = retry_count,
                       !.retry_sec = retry_sec, !.waits = r.waits + 1]

\* mutant of RetryOnException: a rate-limited call is called again at once
RetryOnExceptionNoWait(r, exc) ==
    LET retry_count == r.retry_count + 1
        retry_idx == Min(retry_count - 1, Len(retry_backoff) - 1)
        retry_sec == IF exc = "RateLimited" THEN 0 ELSE retry_backoff[retry_idx + 1]
    IN  [r EXCEPT !.phase = "sleeping", !.retry_count = retry_count,
                  !.retry_sec = retry_sec,
                  !.waits = IF exc = "RateLimited" THEN r.waits ELSE r.waits + 1]

\* the except branch: count the failure, choose the wait, sleep
RetryOnException(r, exc) ==
    LET retry_count == r.retry_count + 1
        retry_idx == Min(retry_count - 1, Len(retry_backoff) - 1)
        retry_sec == IF exc = "RateLimited" THEN RetryAfter ELSE retry_backoff[retry_idx + 1]
    IN  [r EXCEPT !.phase = "sleeping", !.retry_count = retry_count,
                  !.retry_sec = retry_sec, !.waits = r.waits + 1]

\* mutant of RetryAgain: the call is made again without its arguments
RetryAgainBare(r) ==
    [r EXCEPT !.phase = "calling", !.retry_sec = 0, !.invocations = r.invocations + 1,
              !.args = NoCall]

\* the sleep is over: the loop calls the coroutine again with args
RetryAgain(r) ==
    [r EXCEPT !.phase = "calling", !.retry_sec = 0, !.invocations = r.invocations + 1]

\* discord_retry returns: what the posting loop gets back for the call, and
\* how many times the coroutine was called, failed, and was waited for
Returned(call, result_none, r) ==
    [call |-> call, result_none |-> result_none,
     invocations |-> r.invocations, failures |-> r.retry_count, waits |-> r.waits]

\* mutant of Answered: the call is not awaited and stays in flight
NotAwaited(flight, call) == flight

\* a remote call is sent / answered
Issue(flight, call) == flight \cup {call}
Answered(flight, call) == flight \ {call}

(***************************************************************************)
(* slack2discord/client.py: the posting task                               *)
(***************************************************************************)
\* the state of the parser, which the client leaves alone
ParserIdle ==
    /\ records = <<>>
    /\ channel_msgs_dict = EmptyDict
    /\ parser_pc = "done"

\* DiscordClient.__init__: no task yet; the server has zero, one or two text
\* channels of each name of the export
InitOf(exports) ==
    /\ ParserIdle
    /\ FnIdle
    /\ parsed_messages \in exports
    /\ dry_run \in BOOLEAN
    /\ create_channels \in BOOLEAN
    /\ guilds = 0
    /\ text_channels \in [KeySet(parsed_messages) -> 0..2]
    /\ channels = EmptyDict
    /\ pc = "setup_hook"
    /\ loop = [chan |-> 0, step |-> 0]
    /\ retry = RetryIdle
    /\ in_flight = {}
    /\ posted = <<>>
    /\ closes = 0
    /\ caught = ""
    /\ cancelled = ""
    /\ tasks = 0
    /\ ready_events = 0

\* mutant of Raise: the exception ends the task, the finally clause is skipped
RaiseSkipsFinally(exc) ==
    /\ caught' = exc
    /\ pc' = "done"

Init == InitOf(Exports)

\* an exception reaches the except clause of post_messages, which logs it;
\* the finally clause follows
Raise(exc) ==
    /\ caught' = exc
    /\ pc' = "finally"

\* setup_hook, which the library calls once when the client logs in: the
\* task post_messages is created and runs up to await wait_until_ready()
setup_hook ==
    /\ pc = "setup_hook"
    /\ tasks' = tasks + 1
    /\ pc' = "wait_until_ready"
    /\ UNCHANGED <<parsed_messages, dry_run, create_channels, guilds, text_channels, channels,
                   loop, retry, in_flight, posted, closes, caught, cancelled, ready_events>>
    /\ UNCHANGED <<parser_vars, fn_vars>>

\* mutant of on_ready: the handler of the ready event creates the task
on_ready_creates_task ==
    /\ pc # "done"
    /\ ready_events < MaxReady
    /\ ready_events' = ready_events + 1
    /\ tasks' = tasks + 1
    /\ UNCHANGED <<parsed_messages, dry_run, create_channels, guilds, text_channels, channels,
                   pc, loop, retry, in_flight, posted, closes, caught, cancelled>>
    /\ UNCHANGED <<parser_vars, fn_vars>>

\* on_ready: the ready event is dispatched, at the first connection and at
\* every later one while the client is open; the handler logs
on_ready ==
    /\ pc # "done"
    /\ ready_events < MaxReady
    /\ ready_events' = ready_events + 1
    /\ UNCHANGED <<parsed_messages, dry_run, create_channels, guilds, text_channels, channels,
                   pc, loop, retry, in_flight, posted, closes, caught, cancelled, tasks>>
    /\ UNCHANGED <<parser_vars, fn_vars>>

\* post_messages: wait_until_ready returns once the client is ready; the
\* client now knows the servers it is a member of (those that match
\* server_name, if one is given)
Ready ==
    /\ pc = "wait_until_ready"
    /\ ready_events >= 1
    /\ pc' = "get_guild"
    /\ guilds' \in 0..MaxGuilds
    /\ UNCHANGED <<parsed_messages, dry_run, create_channels, text_channels, channels,
                   loop, retry, in_flight, posted, closes, caught, cancelled>>
    /\ UNCHANGED <<parser_vars, fn_vars, connection_vars>>

\* mutant of get_guild: of several matching servers the first is taken
get_guild_first(named, n) ==
    IF n = 0
    THEN (IF named THEN "RuntimeError" ELSE "UnboundLocalError")
    ELSE "guild"

\* get_guild_maybe_by_name with n matching servers: the guild, or the
\* exception raised. xtra_error_str is assigned only when a name is given,
\* so without a name the error message cannot be built.
get_guild(named, n) ==
    IF n = 0 \/ n > 1
    THEN (IF named THEN "RuntimeError" ELSE "UnboundLocalError")
    ELSE "guild"

\* set_channels: get_guild_maybe_by_name(self.server_name), a name given or not
get_guild_maybe_by_name ==
    /\ pc = "get_guild"
    /\ \E named \in BOOLEAN :
        LET guild == get_guild(named, guilds)
        IN  IF guild = "guild"
            THEN /\ pc' = "get_channel"
                 /\ loop' = [chan |-> 1, step |-> 0]
                 /\ UNCHANGED caught
            ELSE /\ Raise(guild)
                 /\ UNCHANGED loop
    /\ UNCHANGED <<parsed_messages, dry_run, create_channels, guilds, text_channels, channels,
                   retry, in_flight, posted, closes, cancelled>>
    /\ UNCHANGED <<parser_vars, fn_vars, connection_vars>>

\* set_channels: the loop over the channel names has ended and post_messages
\* goes on to the loop over the channels
set_channels_done ==
    /\ pc = "get_channel"
    /\ loop.chan > Len(parsed_messages)
    /\ pc' = "posting"
    /\ loop' = FirstCallFrom(1)
    /\ UNCHANGED <<parsed_messages, dry_run, create_channels, guilds, text_channels, channels,
                   retry, in_flight, posted, closes, caught, cancelled>>
    /\ UNCHANGED <<parser_vars, fn_vars, connection_vars>>

\* mutant of lookup: of several text channels of the name the first is taken
lookupFirst(matches, create, dry) ==
    IF matches = 0
    THEN IF ~create THEN "raise"
         ELSE IF dry THEN "None" ELSE "create"
    ELSE "channel"

\* mutant of lookup: a channel is created whether or not this is a dry run
lookupCreates(matches, create, dry) ==
    IF matches = 0 THEN (IF create THEN "create" ELSE "raise")
    ELSE IF matches > 1 THEN "several" ELSE "channel"

\* mutant of lookup: a channel that is missing is left out, and posting goes on
lookupSkips(matches, create, dry) ==
    IF matches = 0 THEN (IF create /\ ~dry THEN "create" ELSE "None")
    ELSE IF matches > 1 THEN "several" ELSE "channel"

\* get_channel_by_name: what becomes of a channel name that has `matches`
\* text channels on the server: "raise" (RuntimeError), "None" (dry run of
\* create_text_channel), "create" (create_text_channel is awaited),
\* "several" (more than one was found: the error message reads the local
\* name channel, which is not bound yet), or "channel" (the one channel
\* found)
lookup(matches, create, dry) ==
    IF matches = 0
    THEN IF ~create THEN "raise"
         ELSE IF dry THEN "None" ELSE "create"
    ELSE IF matches > 1 THEN "several"
    ELSE "channel"

\* set_channels: get_channel_by_name for the next channel name, with the
\* text channels of that name the server has
get_channel_by_name ==
    /\ pc = "get_channel"
    /\ loop.chan <= Len(parsed_messages)
    /\ LET channel_name == parsed_messages[loop.chan].k
           found == lookup(text_channels[channel_name], create_channels, dry_run)
       IN  CASE found = "raise" ->
                    /\ Raise("RuntimeError")
                    /\ UNCHANGED <<channels, loop, in_flight>>
             [] found = "several" ->
                    /\ Raise("UnboundLocalError")
                    /\ UNCHANGED <<channels, loop, in_flight>>
             [] found = "None" ->
                    /\ channels' = DictSet(channels, channel_name, NoHandle)
                    /\ loop' = [loop EXCEPT !.chan = loop.chan + 1]
                    /\ UNCHANGED <<pc, caught, in_flight>>
             [] found = "create" ->
                    /\ in_flight' = Issue(in_flight,
                           Call("create_text_channel", channel_name, 0, 0, FALSE, NoContent, <<>>))
                    /\ pc' = "create_text_channel"
                    /\ UNCHANGED <<channels, loop, caught>>
             [] found = "channel" ->
                    /\ channels' = DictSet(channels, channel_name, channel_name)
                    /\ loop' = [loop EXCEPT !.chan = loop.chan + 1]
                    /\ UNCHANGED <<pc, caught, in_flight>>
    /\ UNCHANGED <<parsed_messages, dry_run, create_channels, guilds, text_channels,
                   retry, posted, closes, cancelled>>
    /\ UNCHANGED <<parser_vars, fn_vars, connection_vars>>

\* create_text_channel: the server created the channel
create_text_channel_ok ==
    /\ pc = "create_text_channel"
    /\ LET channel_name == parsed_messages[loop.chan].k
       IN  /\ in_flight' = Answered(in_flight,
                  Call("create_text_channel", channel_name, 0, 0, FALSE, NoContent, <<>>))
           /\ text_channels' = [text_channels EXCEPT ![channel_name] = 1]
           /\ channels' = DictSet(channels, channel_name, channel_name)
    /\ loop' = [loop EXCEPT !.chan = loop.chan + 1]
    /\ pc' = "get_channel"
    /\ UNCHANGED <<parsed_messages, dry_run, create_channels, guilds,
                   retry, posted, closes, caught, cancelled>>
    /\ UNCHANGED <<parser_vars, fn_vars, connection_vars>>

\* mutant of create_text_channel_fail: the failure is swallowed and the
\* channel is looked up, and so created, again
create_text_channel_retried ==
    /\ pc = "create_text_channel"
    /\ in_flight' = {}
    /\ pc' = "get_channel"
    /\ UNCHANGED <<parsed_messages, dry_run, create_channels, guilds, text_channels, channels,
                   loop, retry, posted, closes, caught, cancelled>>
    /\ UNCHANGED <<parser_vars, fn_vars, connection_vars>>

\* create_text_channel: the call fails; it is not wrapped by discord_retry
create_text_channel_fail ==
    /\ pc = "create_text_channel"
    /\ in_flight' = {}
    /\ Raise("HTTPException")
    /\ UNCHANGED <<parsed_messages, dry_run, create_channels, guilds, text_channels, channels,
                   loop, retry, posted, closes, cancelled>>
    /\ UNCHANGED <<parser_vars, fn_vars, connection_vars>>

\* post_messages: the loop over the channels has ended
posting_done ==
    /\ pc = "posting"
    /\ retry.phase = "idle"
    /\ loop.chan > Len(parsed_messages)
    /\ pc' = "finally"
    /\ UNCHANGED <<parsed_messages, dry_run, create_channels, guilds, text_channels, channels,
                   loop, retry, in_flight, posted, closes, caught, cancelled>>
    /\ UNCHANGED <<parser_vars, fn_vars, connection_vars>>

\* the next wrapped call in a dry run: the coroutine returns None at once,
\* discord_retry returns it, and the loop goes on
call_dry_run ==
    /\ pc = "posting"
    /\ retry.phase = "idle"
    /\ loop.chan <= Len(parsed_messages)
    /\ dry_run
    /\ posted' = Append(posted, Returned(CurrentCall, TRUE, RetryEnter(CurrentCall)))
    /\ loop' = NextPosition(loop)
    /\ UNCHANGED <<parsed_messages, dry_run, create_channels, guilds, text_channels, channels,
                   pc, retry, in_flight, closes, caught, cancelled>>
    /\ UNCHANGED <<parser_vars, fn_vars, connection_vars>>

\* the next wrapped call: discord_retry calls the coroutine, which awaits the
\* remote call
call_remote ==
    /\ pc = "posting"
    /\ retry.phase = "idle"
    /\ loop.chan <= Len(parsed_messages)
    /\ ~dry_run
    /\ retry' = RetryEnter(CurrentCall)
    /\ in_flight' = Issue(in_flight, CurrentCall)
    /\ UNCHANGED <<parsed_messages, dry_run, create_channels, guilds, text_channels, channels,
                   pc, loop, posted, closes, caught, cancelled>>
    /\ UNCHANGED <<parser_vars, fn_vars, connection_vars>>

\* mutant of add_files_args_raise: the exception is logged and the loop
\* goes on with the next call
add_files_args_skipped ==
    /\ pc = "posting"
    /\ retry.phase = "idle"
    /\ loop.chan <= Len(parsed_messages)
    /\ CurrentCall.op = "add_files_to_message"
    /\ CurrentCall.files # <<>>
    /\ caught' = "FileNotFoundError"
    /\ loop' = NextPosition(loop)
    /\ UNCHANGED <<parsed_messages, dry_run, create_channels, guilds, text_channels, channels,
                   pc, retry, in_flight, posted, closes, cancelled>>
    /\ UNCHANGED <<parser_vars, fn_vars, connection_vars>>

\* get_discord_add_files_args raises while building the arguments of
\* add_files_to_message (discord.File cannot open the local file); the call
\* is not made
add_files_args_raise ==
    /\ pc = "posting"
    /\ retry.phase = "idle"
    /\ loop.chan <= Len(parsed_messages)
    /\ CurrentCall.op = "add_files_to_message"
    /\ CurrentCall.files # <<>>
    /\ Raise("FileNotFoundError")
    /\ UNCHANGED <<parsed_messages, dry_run, create_channels, guilds, text_channels, channels,
                   loop, retry, in_flight, posted, closes, cancelled>>
    /\ UNCHANGED <<parser_vars, fn_vars, connection_vars>>

\* mutant of remote_ok: the handle of the channel is reset after the call
remote_ok_resets_handle ==
    /\ pc = "posting"
    /\ retry.phase = "calling"
    /\ in_flight' = Answered(in_flight, retry.args)
    /\ posted' = Append(posted, Returned(retry.args, FALSE, retry))
    /\ retry' = RetryIdle
    /\ loop' = NextPosition(loop)
    /\ channels' = DictSet(channels, retry.args.chan, NoHandle)
    /\ UNCHANGED <<parsed_messages, dry_run, create_channels, guilds, text_channels,
                   pc, closes, caught, cancelled>>
    /\ UNCHANGED <<parser_vars, fn_vars, connection_vars>>

\* the remote call succeeds: discord_retry returns its result
remote_ok ==
    /\ pc = "posting"
    /\ retry.phase = "calling"
    /\ in_flight' = Answered(in_flight, retry.args)
    /\ posted' = Append(posted, Returned(retry.args, FALSE, retry))
    /\ retry' = RetryIdle
    /\ loop' = NextPosition(loop)
    /\ UNCHANGED <<parsed_messages, dry_run, create_channels, guilds, text_channels, channels,
                   pc, closes, caught, cancelled>>
    /\ UNCHANGED <<parser_vars, fn_vars, connection_vars>>

\* the remote call fails: discord_retry catches the exception and sleeps
remote_fail ==
    /\ pc = "posting"
    /\ retry.phase = "calling"
    /\ retry.retry_count < MaxFail
    /\ \E exc \in {"RateLimited", "HTTPException", "Exception"} :
        retry' = RetryOnException(retry, exc)
    /\ in_flight' = Answered(in_flight, retry.args)
    /\ UNCHANGED <<parsed_messages, dry_run, create_channels, guilds, text_channels, channels,
                   pc, loop, posted, closes, caught, cancelled>>
    /\ UNCHANGED <<parser_vars, fn_vars, connection_vars>>

\* asyncio.sleep(retry_sec) returns: the while loop calls the coroutine again
retry_wake ==
    /\ pc = "posting"
    /\ retry.phase = "sleeping"
    /\ retry' = RetryAgain(retry)
    /\ in_flight' = Issue(in_flight, retry'.args)
    /\ UNCHANGED <<parsed_messages, dry_run, create_channels, guilds, text_channels, channels,
                   pc, loop, posted, closes, caught, cancelled>>
    /\ UNCHANGED <<parser_vars, fn_vars, connection_vars>>

\* where the task is suspended, "" when it is running or over
SuspendedAt ==
    IF pc = "wait_until_ready" THEN "wait_until_ready"
    ELSE IF pc = "create_text_channel" THEN "create_text_channel"
    ELSE IF pc = "posting" /\ retry.phase = "calling" THEN "remote call"
    ELSE IF pc = "posting" /\ retry.phase = "sleeping" THEN "retry wait"
    ELSE ""

\* the operator interrupts: the task is cancelled where it is suspended.
\* CancelledError is no Exception: the except clauses of discord_retry and of
\* post_messages do not catch it, the finally clause of post_messages runs
\* if the task is inside the try statement.
cancel ==
    /\ cancelled = ""
    /\ SuspendedAt # ""
    /\ cancelled' = SuspendedAt
    /\ in_flight' = {}
    /\ retry' = RetryIdle
    /\ pc' = IF pc = "wait_until_ready" THEN "done" ELSE "finally"
    /\ UNCHANGED <<parsed_messages, dry_run, create_channels, guilds, text_channels, channels,
                   loop, posted, closes, caught>>
    /\ UNCHANGED <<parser_vars, fn_vars, connection_vars>>

\* post_messages, finally: close()
close ==
    /\ pc = "finally"
    /\ closes' = closes + 1
    /\ pc' = "done"
    /\ UNCHANGED <<parsed_messages, dry_run, create_channels, guilds, text_channels, channels,
                   loop, retry, in_flight, posted, caught, cancelled>>
    /\ UNCHANGED <<parser_vars, fn_vars, connection_vars>>

Next ==
    \/ setup_hook
    \/ on_ready
    \/ Ready
    \/ get_guild_maybe_by_name
    \/ get_channel_by_name
    \/ create_text_channel_ok
    \/ create_text_channel_fail
    \/ set_channels_done
    \/ call_dry_run
    \/ call_remote
    \/ add_files_args_raise
    \/ remote_ok
    \/ remote_fail
    \/ retry_wake
    \/ posting_done
    \/ cancel
    \/ close

Spec == Init /\ [][Next]_vars

\* The event loop runs the task whenever it can run: a remote call is
\* answered, a sleep ends, and the statement after an await is executed.
InitLive == InitOf(ExportsOf(MaxLiveMsgs))

SpecLive == InitLive /\ [][Next]_vars /\ WF_vars(Next)

(***************************************************************************)
(* Functions applied on their own: SpecFunctions applies one function to   *)
(* one argument drawn from a bounded set and keeps argument and result.    *)
(***************************************************************************)
InitFunctions ==
    /\ FnIdle
    /\ ParserIdle
    /\ ClientIdle

\* the function name has been applied to x and returned y
Applied(name, x, y) ==
    /\ fn' = name
    /\ arg' = x
    /\ result' = y
    /\ UNCHANGED <<parser_vars, client_vars>>

(***************************************************************************)
(* DiscordClient.valid_channel_name (its tests are in                      *)
(* tests/test_client.py; the names they accept include upper case letters) *)
(***************************************************************************)
\* the longest channel name allowed
ChannelNameMax == 100
\* a character of each kind: lower case, upper case, digit, hyphen,
\* underscore, and anything else (space, tab, punctuation)
LowerCase == "a"
UpperCase == "A"
Digit == "1"
Hyphen == "-"
Underscore == "_"
OtherChar == "#"
NameChars == {LowerCase, UpperCase, Digit, Hyphen, Underscore, OtherChar}

\* a channel name: the characters of head followed by pad digits
NameLen(name) == Len(name.head) + name.pad
HasDoubleHyphen(name) ==
    \E i \in 1..(Len(name.head) - 1) : name.head[i] = Hyphen /\ name.head[i + 1] = Hyphen

\* mutant of valid_channel_name: a name of ChannelNameMax characters is too long
valid_channel_name_shorter(name) ==
    /\ NameLen(name) >= 1
    /\ NameLen(name) < ChannelNameMax
    /\ \A i \in 1..Len(name.head) :
        name.head[i] \in {LowerCase, UpperCase, Digit, Hyphen, Underscore}
    /\ ~HasDoubleHyphen(name)

valid_channel_name(name) ==
    /\ NameLen(name) >= 1
    /\ NameLen(name) <= ChannelNameMax
    /\ \A i \in 1..Len(name.head) :
        name.head[i] \in {LowerCase, UpperCase, Digit, Hyphen, Underscore}
    /\ ~HasDoubleHyphen(name)

\* the names tried: every head of up to MaxHead characters, alone or padded
\* to the lengths around ChannelNameMax
RECURSIVE SeqsUpTo(_, _)
SeqsUpTo(S, n) ==
    IF n = 0 THEN {<<>>}
    ELSE LET shorter == SeqsUpTo(S, n - 1)
         IN  shorter \cup {Append(q, x) : q \in shorter, x \in S}

ChannelNameInputs ==
    {[head |-> h, pad |-> IF padded = 0 THEN 0 ELSE padded - Len(h)] :
        h \in SeqsUpTo(NameChars, MaxHead),
        padded \in {0, ChannelNameMax - 1, ChannelNameMax, ChannelNameMax + 1}}

apply_valid_channel_name ==
    /\ fn = ""
    /\ \E name \in ChannelNameInputs :
        Applied("valid_channel_name", name, valid_channel_name(name))

(***************************************************************************)
(* SlackParser.set_channel_map and SlackParser.parse                       *)
(***************************************************************************)
\* the most fields a line of the channel file may have
MaxLineFields == 2

\* a channel name: hashes leading pound signs, then base
Name(hashes, base) == [hashes |-> hashes, base |-> base]
\* None (and the empty string, which the code treats alike)
None == Name(0, "")

\* mutant of canonicalize: the name is returned as it is
canonicalize_not(channel_name) == channel_name

\* canonicalize: strip the leading pound sign if present
canonicalize(channel_name) ==
    IF channel_name.hashes > 0
    THEN Name(channel_name.hashes - 1, channel_name.base)
    ELSE channel_name

\* what set_channel_map leaves behind: the exception raised ("" if none)
\* and self.channel_map
MapResult(raised, channel_map) == [raised |-> raised, channel_map |-> channel_map]

\* mutant of ReadChannelFile: a source that is not in the export is mapped
\* like any other
RECURSIVE ReadChannelFileUnchecked(_, _, _)
ReadChannelFileUnchecked(lines, all_slack_channels, channel_map) ==
    IF lines = <<>> THEN MapResult("", channel_map)
    ELSE LET fields == Head(lines)
         IN  IF Len(fields) = 0
             THEN ReadChannelFileUnchecked(Tail(lines), all_slack_channels, channel_map)
             ELSE IF Len(fields) > 2
             THEN MapResult("RuntimeError", channel_map)
             ELSE LET slack_channel == canonicalize(fields[1])
                      discord_channel ==
                          IF Len(fields) = 1 THEN slack_channel ELSE canonicalize(fields[2])
                  IN  ReadChannelFileUnchecked(Tail(lines), all_slack_channels,
                                               DictSet(channel_map, slack_channel, discord_channel))

\* set_channel_map, the loop over the lines of the channel file
RECURSIVE ReadChannelFile(_, _, _)
ReadChannelFile(lines, all_slack_channels, channel_map) ==
    IF lines = <<>> THEN MapResult("", channel_map)
    ELSE LET fields == Head(lines)
         IN  IF Len(fields) = 0
             THEN ReadChannelFile(Tail(lines), all_slack_channels, channel_map)
             ELSE IF Len(fields) > 2
             THEN MapResult("RuntimeError", channel_map)
             ELSE LET slack_channel == canonicalize(fields[1])
                      discord_channel ==
                          IF Len(fields) = 1 THEN slack_channel ELSE canonicalize(fields[2])
                  IN  IF \A i \in 1..Len(all_slack_channels) :
                             all_slack_channels[i] # slack_channel
                      THEN MapResult("ValueError", channel_map)
                      ELSE ReadChannelFile(Tail(lines), all_slack_channels,
                                           DictSet(channel_map, slack_channel, discord_channel))

\* set_channel_map without a channel file: every subdirectory, same name
RECURSIVE MapAll(_, _)
MapAll(all_slack_channels, channel_map) ==
    IF all_slack_channels = <<>> THEN channel_map
    ELSE MapAll(Tail(all_slack_channels),
                DictSet(channel_map, Head(all_slack_channels), Head(all_slack_channels)))

\* set_channel_map on a parser constructed from config: src_file and
\* src_dirtree given or not, src_dir the base name of the directory or None,
\* dest_channel a name or None, channel_file given or not, subdirs the
\* subdirectories of the tree as listdir lists them, lines the fields of the
\* lines of the channel file
set_channel_map(config) ==
    LET dest_channel ==
            IF config.src_dir # None /\ config.dest_channel = None
            THEN config.src_dir
            ELSE config.dest_channel
    IN  IF config.src_file
        THEN IF dest_channel = None THEN MapResult("AssertionError", EmptyDict)
             ELSE MapResult("", DictSet(EmptyDict, None, canonicalize(dest_channel)))
        ELSE IF config.src_dir # None
        THEN MapResult("", DictSet(EmptyDict, config.src_dir, canonicalize(dest_channel)))
        ELSE IF config.src_dirtree
        THEN IF config.channel_file
             THEN ReadChannelFile(config.lines, config.subdirs, EmptyDict)
             ELSE MapResult("", MapAll(config.subdirs, EmptyDict))
        ELSE MapResult("RuntimeError", EmptyDict)

\* what parse_file and parse_message make of the export files of a Slack
\* channel (of the single file, for None): every source holds one message,
\* at a timestamp of its own
SourceTs(slack_channel) ==
    IF slack_channel = None THEN 4
    ELSE IF slack_channel.base = "b" THEN 3
    ELSE IF slack_channel.hashes = 0 THEN 1 ELSE 2

ChannelExport(slack_channel) ==
    <<[k |-> SourceTs(slack_channel),
       v |-> RootEntry(ExportedMessage(SourceTs(slack_channel), {}), FALSE, EmptyDict)]>>

\* mutant of parse_channel: the messages are added to those the Discord
\* channel already has
parse_channel_merged(slack_channel, discord_channel, parsed) ==
    DictSet(parsed, discord_channel,
            (IF DictHas(parsed, discord_channel) THEN DictGet(parsed, discord_channel)
             ELSE EmptyDict) \o ChannelExport(slack_channel))

\* parse_channel: a fresh channel_msgs_dict is filled from the files of the
\* Slack channel and assigned to parsed_messages[discord_channel]
parse_channel(slack_channel, discord_channel, parsed) ==
    DictSet(parsed, discord_channel, ChannelExport(slack_channel))

\* parse, the loop over the items of channel_map
RECURSIVE ParseChannels(_, _)
ParseChannels(items, parsed) ==
    IF items = <<>> THEN parsed
    ELSE ParseChannels(Tail(items), parse_channel(Head(items).k, Head(items).v, parsed))

\* parse: set_channel_map, then parse_channel for every item of channel_map;
\* the result is what set_channel_map left, the channels parse_channel
\* was called for, and parsed_messages
parse(config) ==
    LET mapped == set_channel_map(config)
    IN  [raised |-> mapped.raised,
         channel_map |-> mapped.channel_map,
         parse_channel |-> IF mapped.raised = "" THEN mapped.channel_map ELSE <<>>,
         parsed_messages |-> IF mapped.raised = ""
                             THEN ParseChannels(mapped.channel_map, EmptyDict)
                             ELSE EmptyDict]

\* the names tried: a, #a and b
TokenNames == {Name(0, "a"), Name(1, "a"), Name(0, "b")}

\* the sequences of up to n distinct elements of S
DistinctSeqs(S, n) ==
    {q \in SeqsUpTo(S, n) : \A i \in 1..Len(q) : \A j \in 1..Len(q) : q[i] = q[j] => i = j}

\* the lines of a channel file: up to one field more than a line may have
ChannelFileLines == SeqsUpTo(TokenNames, MaxLineFields + 1)

\* the configurations check_config lets through, with the subdirectories
\* of the export tree and the lines of the channel file
ParseConfigs ==
    {[src_file |-> TRUE, src_dir |-> None, dest_channel |-> dest, src_dirtree |-> FALSE,
      channel_file |-> FALSE, subdirs |-> <<>>, lines |-> <<>>] : dest \in TokenNames}
    \cup
    {[src_file |-> FALSE, src_dir |-> dir, dest_channel |-> dest, src_dirtree |-> FALSE,
      channel_file |-> FALSE, subdirs |-> <<>>, lines |-> <<>>] :
        dir \in TokenNames, dest \in TokenNames \cup {None}}
    \cup
    {[src_file |-> FALSE, src_dir |-> None, dest_channel |-> None, src_dirtree |-> TRUE,
      channel_file |-> FALSE, subdirs |-> subdirs, lines |-> <<>>] :
        subdirs \in DistinctSeqs(TokenNames, MaxSubdirs)}
    \cup
    {[src_file |-> FALSE, src_dir |-> None, dest_channel |-> None, src_dirtree |-> TRUE,
      channel_file |-> TRUE, subdirs |-> subdirs, lines |-> lines] :
        subdirs \in DistinctSeqs(TokenNames, MaxSubdirs),
        lines \in SeqsUpTo(ChannelFileLines, MaxLines)}

apply_parse ==
    /\ fn = ""
    /\ \E config \in ParseConfigs : Applied("parse", config, parse(config))

(***************************************************************************)
(* slack2discord/message.py under post_messages_to_channel: the calls made *)
(* for one root message and at most one reply, each with links and files   *)
(***************************************************************************)
\* the most links of a message, above MAX_DISCORD_EMBEDS
MaxLinks == 12
\* the most files of a message
MaxAttached == 2

FileIds == <<"F1", "F2", "F3">>

\* the files of a message, given the not found flag of each
AttachedFiles(flags) == [i \in 1..Len(flags) |-> MessageFile(FileIds[i], flags[i])]

\* n links, in ascending or in descending order of the link they point to
Links(n, ascending) ==
    [i \in 1..n |-> MessageLink(IF ascending THEN i ELSE n + 1 - i)]

LinkedMessage(ts, n, ascending, flags) ==
    [text |-> format_message(ts, "1", "text"),
     links |-> Links(n, ascending),
     files |-> AttachedFiles(flags)]

\* a root at timestamp 1, alone or with one reply at timestamp 2
LinkedEntries ==
    LET flagsets == SeqsUpTo(BOOLEAN, MaxAttached)
    IN  { RootEntry(LinkedMessage(1, n, ascending, flags), replied,
                    IF replied
                    THEN <<[k |-> 2, v |-> LinkedMessage(2, n, ~ascending, flags)]>>
                    ELSE EmptyDict) :
            n \in 0..MaxLinks, ascending \in BOOLEAN,
            flags \in flagsets, replied \in BOOLEAN }

apply_post_messages_to_channel ==
    /\ fn = ""
    /\ \E entry \in LinkedEntries :
           Applied("post_messages_to_channel", entry,
                   post_messages_to_channel("a", "channel",
                                            <<[k |-> 1, v |-> entry]>>, FALSE))

(***************************************************************************)
(* slack2discord/config.py: get_token and check_config under get_config    *)
(***************************************************************************)
\* the value of a command line option, of an environment variable or of a
\* file: absent (None), or a string, empty or not
Absent == [given |-> FALSE, value |-> ""]
Given(value) == [given |-> TRUE, value |-> value]
OptionValues == {Absent, Given(""), Given("x")}

\* x is not None
is_not_None(x) == x.given
\* the truth value of x: None and the empty string are false
truthy(x) == x.given /\ x.value # ""

\* the outcome of a step of get_config: exit_usage was called, or the step
\* returned with this config
Exited(config) == [exit |-> TRUE, config |-> config]
Passed(config) == [exit |-> FALSE, config |-> config]

\* get_token: the token of the command line, else of the environment, else
\* of the file; without any of them the usage exit
get_token(config, env, dot_file) ==
    IF truthy(config.token) THEN Passed(config)
    ELSE IF is_not_None(env) THEN Passed([config EXCEPT !.token = env])
    ELSE IF is_not_None(dot_file) THEN Passed([config EXCEPT !.token = dot_file])
    ELSE Exited(config)

\* mutant of check_config: a channel file is allowed with every mode
check_config_any_channel_file(config) ==
    LET one_file == is_not_None(config.src_file)
        one_channel == is_not_None(config.src_dir)
        multi_channels == is_not_None(config.src_dirtree)
        ways == (IF one_file THEN 1 ELSE 0) + (IF one_channel THEN 1 ELSE 0)
                + (IF multi_channels THEN 1 ELSE 0)
    IN  IF ways > 1 THEN Exited(config)
        ELSE IF ways = 0 THEN Exited(config)
        ELSE IF one_file /\ ~is_not_None(config.dest_channel) THEN Exited(config)
        ELSE IF multi_channels /\ is_not_None(config.dest_channel) THEN Exited(config)
        ELSE IF ~truthy(config.token) THEN Exited(config)
        ELSE Passed(config)

\* check_config: the usage exits in the order of the code
check_config(config) ==
    LET one_file == is_not_None(config.src_file)
        one_channel == is_not_None(config.src_dir)
        multi_channels == is_not_None(config.src_dirtree)
        ways == (IF one_file THEN 1 ELSE 0) + (IF one_channel THEN 1 ELSE 0)
                + (IF multi_channels THEN 1 ELSE 0)
    IN  IF ways > 1 THEN Exited(config)
        ELSE IF ways = 0 THEN Exited(config)
        ELSE IF one_file /\ ~is_not_None(config.dest_channel) THEN Exited(config)
        ELSE IF multi_channels /\ is_not_None(config.dest_channel) THEN Exited(config)
        ELSE IF truthy(config.channel_file) /\ ~multi_channels THEN Exited(config)
        ELSE IF ~truthy(config.token) THEN Exited(config)
        ELSE Passed(config)

\* get_config: parse_args, get_token, check_config; the config is returned
\* only when neither exits
get_config(args, env, dot_file) ==
    LET with_token == get_token(args, env, dot_file)
    IN  IF with_token.exit THEN with_token ELSE check_config(with_token.config)

\* the command lines: each option absent, empty or set
CommandLines ==
    [src_file : OptionValues, src_dir : OptionValues, src_dirtree : OptionValues,
     dest_channel : OptionValues, channel_file : OptionValues, token : OptionValues]

\* the file of the token is read stripped; its absence is the absence of the file
apply_get_config ==
    /\ fn = ""
    /\ \E args \in CommandLines, env \in OptionValues, dot_file \in OptionValues :
           Applied("get_config", [args |-> args, env |-> env, dot_file |-> dot_file],
                   get_config(args, env, dot_file))

(***************************************************************************)
(* slack2discord/parser.py: fix_markdown. A text is a sequence of          *)
(* characters, one of each kind the two regular expressions tell apart.    *)
(***************************************************************************)
\* the longest text
MaxText == 6

Asterisk == "*"
Tilde == "~"
Letter == "a"
Space == " "
Newline == "\n"
TextChars == {Asterisk, Tilde, Letter, Space, Newline}

\* \S: a character that is not whitespace
NonSpace(c) == c \notin {Space, Newline}
\* . without DOTALL: a character that is not a line break
Dot(c) == c # Newline

Largest(S) == CHOOSE j \in S : \A k \in S : k <= j

\* the match of (d)(\S+|\S.*\S)(d) that starts at position i: the position
\* of its closing delimiter, 0 without a match. The first alternative is
\* tried before the second, each from its longest match down.
Closing(text, i, d) ==
    LET n == Len(text)
        words == {j \in (i + 2)..n :
                     /\ text[j] = d
                     /\ \A k \in (i + 1)..(j - 1) : NonSpace(text[k])}
        spans == {j \in (i + 3)..n :
                     /\ text[j] = d
                     /\ NonSpace(text[i + 1])
                     /\ \A k \in (i + 2)..(j - 2) : Dot(text[k])
                     /\ NonSpace(text[j - 1])}
    IN  IF text[i] # d THEN 0
        ELSE IF words # {} THEN Largest(words)
        ELSE IF spans # {} THEN Largest(spans)
        ELSE 0

\* re.sub from position i on: the matches, leftmost first and not
\* overlapping, are replaced by \1d\2d\3; the rest is copied
RECURSIVE sub(_, _, _)
sub(d, text, i) ==
    IF i > Len(text) THEN <<>>
    ELSE LET j == Closing(text, i, d)
         IN  IF j = 0
             THEN <<text[i]>> \o sub(d, text, i + 1)
             ELSE <<d, d>> \o SubSeq(text, i + 1, j - 1) \o <<d, d>>
                  \o sub(d, text, j + 1)

\* fix_markdown: the bold spans, then the strikethrough spans
fix_markdown(text) ==
    LET text_bold_fixed == sub(Asterisk, text, 1)
    IN  sub(Tilde, text_bold_fixed, 1)

apply_fix_markdown ==
    /\ fn = ""
    /\ \E text \in SeqsUpTo(TextChars, MaxText) :
           Applied("fix_markdown", text, fix_markdown(text))

(***************************************************************************)
(* slack2discord/client.py: discord_retry around two calls in a row, each  *)
(* failing a number of times before it succeeds                            *)
(***************************************************************************)
\* the most failures of the second call, beyond the end of retry_backoff
MaxFailures == 5

\* the exceptions of a wrapped call: rate limited, another HTTP exception,
\* any other exception
Exceptions == {"RateLimited", "HTTPException", "Exception"}

\* the while loop from a call of the coroutine on: each failure is caught,
\* waited for and followed by the next call; the waits are kept in order
RECURSIVE Retrying(_, _, _)
Retrying(r, failures, sleeps) ==
    IF failures = <<>>
    THEN [sleeps |-> sleeps, returned |-> Returned(r.args, FALSE, r)]
    ELSE LET sleeping == RetryOnException(r, Head(failures))
         IN  Retrying(RetryAgain(sleeping), Tail(failures),
                      Append(sleeps, sleeping.retry_sec))

\* discord_retry around a call that fails with these exceptions, then succeeds
discord_retry(call, failures) == Retrying(RetryEnter(call), failures, <<>>)

RetriedCall(ts) == Call("send_msg_to_channel", "general", ts, 0, FALSE, NoContent, <<>>)

apply_discord_retry ==
    /\ fn = ""
    /\ \E first \in SeqsUpTo(Exceptions, MaxFail), second \in SeqsUpTo(Exceptions, MaxFailures) :
           Applied("discord_retry", <<first, second>>,
                   <<discord_retry(RetriedCall(1), first),
                     discord_retry(RetriedCall(2), second)>>)

(***************************************************************************)
(* slack2discord/parser.py: get_name, for a users dict and the 'user' and  *)
(* 'user_profile' of a message                                             *)
(***************************************************************************)
\* the user ids: of a member, of another kind of account, a lone U, the
\* empty string, and no 'user' key
UserIds == {"U1", "W1", "U", "", NoValue}

\* self.users after parse_users
UsersDicts == UNION {[ids -> {"alice"}] : ids \in SUBSET {"U1", "W1"}}

\* message.get('user_profile'): a dict whose 'display_name' and 'real_name'
\* are a name, empty or not there; NoProfile is among them
UserProfiles ==
    [display_name : {"dana", "", NoValue}, real_name : {"Dana R", "", NoValue}]

apply_get_name ==
    /\ fn = ""
    /\ \E users \in UsersDicts, user_id \in UserIds, user_profile \in UserProfiles :
           LET message == [user |-> user_id, user_profile |-> user_profile]
           IN  Applied("get_name", [users |-> users, message |-> message],
                       get_name(users, message))

(***************************************************************************)
(* slack2discord/parser.py: unescape_text, applied to what the export      *)
(* makes of a text.  A text is a sequence of characters.                   *)
(***************************************************************************)
Amp == <<"&", "a", "m", "p", ";">>
Lt == <<"&", "l", "t", ";">>
Gt == <<"&", "g", "t", ";">>

\* the export's escaping, as the docstring of unescape_text gives it: every
\* & is &amp;, every < is &lt;, every > is &gt;
RECURSIVE escape_text(_)
escape_text(text) ==
    IF text = <<>> THEN <<>>
    ELSE (CASE Head(text) = "&" -> Amp
            [] Head(text) = "<" -> Lt
            [] Head(text) = ">" -> Gt
            [] OTHER -> <<Head(text)>>)
         \o escape_text(Tail(text))

\* re.sub(pattern, repl, text) for a pattern of plain characters: the
\* matches, leftmost first and not overlapping, are replaced by repl
RECURSIVE sub_plain(_, _, _)
sub_plain(pattern, repl, text) ==
    IF Len(text) < Len(pattern) THEN text
    ELSE IF SubSeq(text, 1, Len(pattern)) = pattern
    THEN repl \o sub_plain(pattern, repl, SubSeq(text, Len(pattern) + 1, Len(text)))
    ELSE <<Head(text)>> \o sub_plain(pattern, repl, Tail(text))

\* unescape_text: &amp; first, then &lt;, then &gt;
unescape_text(text) ==
    LET unescaped_amp == sub_plain(Amp, <<"&">>, text)
        unescaped_amp_lt == sub_plain(Lt, <<"<">>, unescaped_amp)
        unescaped_amp_lt_gt == sub_plain(Gt, <<">">>, unescaped_amp_lt)
    IN  unescaped_amp_lt_gt

\* the characters of the texts: the three that are escaped and those an
\* entity is made of
EscapeChars == {"&", "<", ">", "l", "g", "t", ";"}

apply_unescape_text ==
    /\ fn = ""
    /\ \E text \in SeqsUpTo(EscapeChars, MaxEscaped) :
           Applied("unescape_text", text,
                   [exported |-> escape_text(text),
                    unescaped |-> unescape_text(escape_text(text))])

(***************************************************************************)
(* slack2discord/downloader.py: download, for the files of the parsed      *)
(* messages, the answer of the server for each file id, the files already  *)
(* in the downloads dir, and ignore_not_found                              *)
(***************************************************************************)
\* the answers of the server to the GET of a file
Statuses == {"ok", "not_found", "error"}
DownloadIds == {"F1", "F2"}

\* mutant of wget: a file not found is ignored whatever ignore_not_found is
wget_ignoring(status, ignore_not_found) ==
    IF status = "not_found" THEN "False"
    ELSE IF status = "error" THEN "raise"
    ELSE "True"

\* SlackDownloader._wget: True when the file was written, False when it was
\* not found and that is ignored; raise_for_status raises for every other
\* answer that is not ok
wget(status, ignore_not_found) ==
    IF status = "not_found" /\ ignore_not_found THEN "False"
    ELSE IF status # "ok" THEN "raise"
    ELSE "True"

\* download, before its loop: no file was handled yet
NoDownloads(disk) ==
    [raised |-> FALSE, success |-> 0, not_found |-> 0, skipped |-> 0,
     files |-> <<>>, handled |-> <<>>, disk |-> disk]

\* download, the body of its loop for one file: the file is skipped when
\* the downloads dir has it in the size the server tells, else it is
\* fetched; d is what the loop did so far
download_file(d, file, status, ignore_not_found) ==
    IF file.id \in d.disk /\ status = "ok"
    THEN [d EXCEPT !.skipped = @ + 1,
                   !.files = Append(@, file),
                   !.handled = Append(@, "skipped")]
    ELSE LET got == wget(status, ignore_not_found)
         IN  IF got = "raise"
             THEN [d EXCEPT !.raised = TRUE]
             ELSE IF got = "True"
             THEN [d EXCEPT !.success = @ + 1,
                            !.files = Append(@, file),
                            !.handled = Append(@, "success"),
                            !.disk = @ \cup {file.id}]
             ELSE [d EXCEPT !.not_found = @ + 1,
                            !.files = Append(@, MessageFile(file.id, TRUE)),
                            !.handled = Append(@, "not_found")]

\* download, its loop over self.files from file i on; an exception ends it
RECURSIVE download_from(_, _, _, _, _)
download_from(d, files, i, status, ignore_not_found) ==
    IF d.raised \/ i > Len(files) THEN d
    ELSE download_from(download_file(d, files[i], status[files[i].id], ignore_not_found),
                       files, i + 1, status, ignore_not_found)

\* SlackDownloader.download: the counts, and the files as it leaves them
download(files, status, disk, ignore_not_found) ==
    download_from(NoDownloads(disk), files, 1, status, ignore_not_found)

\* self.files after _populate_files: files of the messages, the same file
\* id more than once when a file is attached to several messages
DownloadLists ==
    {[i \in 1..Len(ids) |-> MessageFile(ids[i], FALSE)] :
        ids \in SeqsUpTo(DownloadIds, MaxDownloads)}

apply_download ==
    /\ fn = ""
    /\ \E files \in DownloadLists, status \in [DownloadIds -> Statuses],
          disk \in SUBSET DownloadIds, ignore_not_found \in BOOLEAN :
           Applied("download",
                   [files |-> files, status |-> status, disk |-> disk,
                    ignore_not_found |-> ignore_not_found],
                   download(files, status, disk, ignore_not_found))

(***************************************************************************)
(* SpecFunctions                                                           *)
(***************************************************************************)
NextFunctions ==
    \/ apply_valid_channel_name
    \/ apply_parse
    \/ apply_post_messages_to_channel
    \/ apply_get_config
    \/ apply_fix_markdown
    \/ apply_discord_retry
    \/ apply_get_name
    \/ apply_unescape_text
    \/ apply_download

SpecFunctions == InitFunctions /\ [][NextFunctions]_vars

(***************************************************************************)
(* Claims about the parser, checked under SpecParser.                      *)
(***************************************************************************)
\* what parse_message builds from a record
ParsedOf(m) ==
    add_files(ParsedMessage(format_message(m.ts, get_name(NoUsers, m), m.text)), m.files)

\* the records that parse_message places: it returns early on the others
IsHead(m) == is_parsed(m) /\ m.replies
IsReply(m) == is_parsed(m) /\ ~m.replies /\ m.thread_ts # NoTs
IsStandalone(m) == is_parsed(m) /\ ~m.replies /\ m.thread_ts = NoTs

Read == {m \in {records[i] : i \in 1..Len(records)} : is_parsed(m)}

\* the places of channel_msgs_dict that hold the message of record m
RootPlaces(m) ==
    {i \in 1..Len(channel_msgs_dict) :
        channel_msgs_dict[i].k = m.ts /\ channel_msgs_dict[i].v.msg = ParsedOf(m)}

ReplyPlaces(m) ==
    {ij \in (1..Len(channel_msgs_dict)) \X (1..MaxTs) :
        LET thread == channel_msgs_dict[ij[1]].v.thread
        IN  /\ ij[2] <= Len(thread)
            /\ thread[ij[2]].k = m.ts
            /\ thread[ij[2]].v = ParsedOf(m)}

\* record m is in the dict exactly once, where the claim puts it
PlacedOnce(m) ==
    /\ Cardinality(RootPlaces(m)) + Cardinality(ReplyPlaces(m)) = 1
    /\ IF IsReply(m)
       THEN /\ DictHas(channel_msgs_dict, m.thread_ts)
            /\ DictHas(DictGet(channel_msgs_dict, m.thread_ts).thread, m.ts)
       ELSE RootPlaces(m) # {}

\* C7: after any sequence of message-type records with distinct timestamps,
\* in any order, every record read is in channel_msgs_dict exactly once: as a
\* root at its own timestamp, or as a reply at its own timestamp in the
\* thread of the root it references.
\* (Stated for the exports in which every record a reply references is the
\* head of a thread, so that a violation does not rest on a malformed one.)
ReferencedAreHeads ==
    \A m \in Read : IsReply(m) => \A r \in Read : r.ts = m.thread_ts => IsHead(r)

C7_EveryRecordExactlyOnce ==
    (parser_pc = "parsing" /\ ReferencedAreHeads) => \A m \in Read : PlacedOnce(m)

\* the replies read so far that reference root timestamp T
RepliesTo(T) == {m \in Read : IsReply(m) /\ m.thread_ts = T}

\* C8: while replies reference a root timestamp T that no record read so far
\* carries, channel_msgs_dict holds exactly one entry at T, with the
\* placeholder text and no sender name, and its thread holds exactly the
\* replies that reference T, each at its own timestamp.
C8_SyntheticRoot ==
    \A T \in Timestamps :
        (parser_pc = "parsing" /\ T \notin SeenTs /\ RepliesTo(T) # {}) =>
            /\ Cardinality({i \in 1..Len(channel_msgs_dict) : channel_msgs_dict[i].k = T}) = 1
            /\ LET root == DictGet(channel_msgs_dict, T)
               IN  /\ root.msg.text.body = PlaceholderText
                   /\ root.msg.text.name = NoName
                   /\ root.msg.text.time = T
                   /\ root.has_thread
                   /\ Len(root.thread) = Cardinality(RepliesTo(T))
                   /\ KeySet(root.thread) = {m.ts : m \in RepliesTo(T)}
                   /\ \A m \in RepliesTo(T) : DictGet(root.thread, m.ts) = ParsedOf(m)

\* C8 witness: two replies to a timestamp never read share one synthetic root
C8_Witness ==
    \E T \in Timestamps :
        /\ parser_pc = "parsing"
        /\ T \notin SeenTs
        /\ Cardinality(RepliesTo(T)) = 2
        /\ DictHas(channel_msgs_dict, T)
        /\ DictGet(channel_msgs_dict, T).msg.text.body = PlaceholderText
        /\ Len(DictGet(channel_msgs_dict, T).thread) = 2

\* every reply read so far follows the head of the thread it references
RootsBeforeReplies ==
    \A i \in 1..Len(records) :
        IsReply(records[i]) =>
            \E j \in 1..(i - 1) : IsHead(records[j]) /\ records[j].ts = records[i].thread_ts

\* C9: when the records are standalone messages and thread heads each
\* followed later by its replies, channel_msgs_dict has exactly one entry per
\* standalone message and per thread head; a standalone entry has no thread,
\* and the thread of a head holds exactly its replies under their own
\* timestamps, so that its ascending keys are the replies' timestamps.
C9_RootsThenReplies ==
    (parser_pc = "parsing" /\ RootsBeforeReplies) =>
        /\ KeySet(channel_msgs_dict) = {m.ts : m \in {r \in Read : ~IsReply(r)}}
        /\ Len(channel_msgs_dict) = Cardinality({r \in Read : ~IsReply(r)})
        /\ \A m \in Read :
            /\ IsStandalone(m) =>
                /\ ~DictGet(channel_msgs_dict, m.ts).has_thread
                /\ DictGet(channel_msgs_dict, m.ts).msg = ParsedOf(m)
            /\ IsHead(m) =>
                LET root == DictGet(channel_msgs_dict, m.ts)
                IN  /\ root.msg = ParsedOf(m)
                    /\ root.has_thread
                    /\ Len(root.thread) = Cardinality(RepliesTo(m.ts))
                    /\ KeySet(root.thread) = {r.ts : r \in RepliesTo(m.ts)}
                    /\ \A r \in RepliesTo(m.ts) : DictGet(root.thread, r.ts) = ParsedOf(r)
                    /\ \A i \in 1..Len(root.thread) :
                        /\ sorted(DictKeys(root.thread))[i] \in KeySet(root.thread)
                        /\ i > 1 => sorted(DictKeys(root.thread))[i - 1]
                                        < sorted(DictKeys(root.thread))[i]

\* C9 witness: a standalone message at 1 and a head at 2 whose replies 4 and
\* 3 were read in that order: two entries, the thread's ascending keys 3, 4
C9_Witness ==
    /\ parser_pc = "parsing"
    /\ RootsBeforeReplies
    /\ Len(records) = 4
    /\ Len(channel_msgs_dict) = 2
    /\ DictHas(channel_msgs_dict, 1) /\ ~DictGet(channel_msgs_dict, 1).has_thread
    /\ DictHas(channel_msgs_dict, 2)
    /\ DictKeys(DictGet(channel_msgs_dict, 2).thread) = <<4, 3>>
    /\ sorted(DictKeys(DictGet(channel_msgs_dict, 2).thread)) = <<3, 4>>

\* the step hands a record with 'replies' to parse_message
HeadProcessed ==
    /\ Len(records') = Len(records) + 1
    /\ IsHead(records'[Len(records')])

\* the entry at key is as it was, or at least holds the replies it held
KeepsEntry(key) ==
    /\ DictHas(channel_msgs_dict', key)
    /\ LET before == DictGet(channel_msgs_dict, key)
           after == DictGet(channel_msgs_dict', key)
       IN  \/ after = before
           \/ /\ key = records'[Len(records')].ts
              /\ \A r \in KeySet(before.thread) :
                     /\ DictHas(after.thread, r)
                     /\ DictGet(after.thread, r) = DictGet(before.thread, r)

\* C20: processing a record with 'replies' overwrites nothing: every entry
\* of channel_msgs_dict is still there afterwards, the entry at the
\* timestamp of the record included, with the replies its thread held.
C20_HeadOverwritesNothing ==
    [][HeadProcessed => \A key \in KeySet(channel_msgs_dict) : KeepsEntry(key)]_vars

\* the step hands a record with 'thread_ts' and without 'replies' to
\* parse_message
ReplyProcessed ==
    /\ Len(records') = Len(records) + 1
    /\ IsReply(records'[Len(records')])
    /\ ~add_files_raises(records'[Len(records')].files)

\* C21: whenever a reply is placed, the entry found at its 'thread_ts' has a
\* thread (not None), so the assertion on the thread never fails and parsing
\* goes on, also when that entry was stored for a message of no thread.
C21_ThreadFound ==
    [][ReplyProcessed =>
          LET thread_timestamp == records'[Len(records')].thread_ts
          IN  /\ DictHas(channel_msgs_dict, thread_timestamp) =>
                     DictGet(channel_msgs_dict, thread_timestamp).has_thread
              /\ parser_pc' = "parsing"]_vars

\* C32: no thread of channel_msgs_dict has a key equal to the timestamp of
\* its own root, also after a record whose 'thread_ts' is its own 'ts' and
\* which has no 'replies'.
C32_RootNotInOwnThread ==
    \A i \in 1..Len(channel_msgs_dict) :
        ~DictHas(channel_msgs_dict[i].v.thread, channel_msgs_dict[i].k)

\* the step hands parse_message a record of which a file lacks 'id', 'name'
\* or 'url_private', and which is in no other way in error
BrokenFileProcessed ==
    /\ Len(records') = Len(records) + 1
    /\ is_parsed(records'[Len(records')])
    /\ add_files_raises(records'[Len(records')].files)
    /\ ~assert_raises(records'[Len(records')], channel_msgs_dict)

\* C33: a file record that lacks 'id', 'name' or 'url_private' is skipped
\* without aborting: the message it belongs to is placed in channel_msgs_dict
\* with its text and without that file, and parsing goes on with the records
\* after it.
C33_BrokenFileSkipped ==
    [][BrokenFileProcessed =>
          /\ parser_pc' = "parsing"
          /\ channel_msgs_dict' = parse_message(records'[Len(records')], channel_msgs_dict)
          /\ records'[Len(records')].ts \in
                 KeySet(channel_msgs_dict') \cup
                 UNION {KeySet(channel_msgs_dict'[i].v.thread) :
                            i \in 1..Len(channel_msgs_dict')}]_vars

\* the step hands parse_message a record of another type than 'message', or
\* one with no 'ts'
SkippedProcessed ==
    /\ Len(records') = Len(records) + 1
    /\ is_skipped(records'[Len(records')])

\* C35: a record that is not of type 'message', or that has no 'ts', leaves
\* channel_msgs_dict, and so every thread in it, as it was, and parsing goes
\* on with the records after it.
C35_SkippedLeavesDict ==
    [][SkippedProcessed =>
          /\ channel_msgs_dict' = channel_msgs_dict
          /\ parser_pc' = "parsing"]_vars

\* a record of another type, with a 'ts', was read between two messages:
\* both messages are in the dict, nothing is at the timestamp of the record
\* skipped
C35_Witness ==
    /\ parser_pc = "parsing"
    /\ Len(records) = 3
    /\ is_parsed(records[1])
    /\ records[2].type # "message" /\ records[2].ts # NoTs
    /\ is_parsed(records[3])
    /\ ~DictHas(channel_msgs_dict, records[2].ts)
    /\ DictHas(channel_msgs_dict, records[1].ts)
    /\ DictHas(channel_msgs_dict, records[3].ts)

(***************************************************************************)
(* Claims about the posting task, checked under Spec.                      *)
(***************************************************************************)
\* the calls discord_retry has returned from, in order
Completed == [i \in 1..Len(posted) |-> posted[i].call]

\* every call of the channels from the i-th on, in the order of the loops
RECURSIVE PlanFrom(_)
PlanFrom(i) ==
    IF i > Len(parsed_messages) THEN <<>>
    ELSE CallsOfChannel(i) \o PlanFrom(i + 1)

\* the task went through resolution and posting and was not stopped
RanThrough == pc = "done" /\ caught = "" /\ cancelled = ""

\* C1: within one channel the root messages are sent in strictly ascending
\* timestamp order, and within one thread the replies are sent in strictly
\* ascending timestamp order, whatever the insertion order of the dicts.
C1_AscendingOrder ==
    \A i \in 1..Len(posted) : \A j \in (i + 1)..Len(posted) :
        LET a == posted[i].call
            b == posted[j].call
        IN  /\ (a.op = "send_msg_to_channel" /\ b.op = "send_msg_to_channel" /\ a.chan = b.chan)
                => a.ts < b.ts
            /\ (a.op = "send_msg_to_thread" /\ b.op = "send_msg_to_thread"
                    /\ a.chan = b.chan /\ a.ts = b.ts)
                => a.reply < b.reply

\* C1, witness: a thread whose replies were inserted in descending order has
\* been posted, root and replies, and the task ran through
C1_Witness ==
    /\ RanThrough
    /\ ~dry_run
    /\ \E i \in 1..Len(parsed_messages) : \E r \in 1..Len(parsed_messages[i].v) :
        LET entry == parsed_messages[i].v[r].v
        IN  /\ entry.has_thread
            /\ DictKeys(entry.thread) = <<3, 2>>
            /\ \E x \in 1..Len(posted) : \E y \in 1..Len(posted) :
                /\ x < y
                /\ posted[x].call.op = "send_msg_to_thread" /\ posted[x].call.reply = 2
                /\ posted[y].call.op = "send_msg_to_thread" /\ posted[y].call.reply = 3

\* C2: at most one remote call is in flight at any moment, the calls complete
\* in the order of the loops, and when a call for a channel is in flight every
\* call of the channels before it has completed.
C2_Sequential ==
    /\ Cardinality(in_flight) <= 1
    /\ pc = "posting" =>
        /\ Completed = SubSeq(PlanFrom(1), 1, Len(posted))
        /\ \A c \in in_flight :
            /\ c = CurrentCall
            /\ \A j \in 1..(loop.chan - 1) :
                \A n \in 1..Len(CallsOfChannel(j)) :
                    \E x \in 1..Len(posted) : posted[x].call = CallsOfChannel(j)[n]

\* C2, witness: a call for the second channel is in flight after the calls
\* of the first channel have completed
C2_Witness ==
    /\ pc = "posting"
    /\ loop.chan = 2
    /\ in_flight # {}
    /\ Len(posted) >= 2

\* C3 as stated: however the task ends, close was invoked exactly once
C3_ClosedOnEveryExit == pc = "done" => closes = 1

\* C3, amended: once wait_until_ready has returned, the task ends only through
\* close, which is invoked exactly once, after all channels are posted, after
\* an exception of resolution or posting, and after cancellation; after close
\* no remote call is in flight or issued. A task cancelled while it waits for
\* the client to be ready ends without close.
C3_Ended ==
    /\ closes <= 1
    /\ pc = "done" => (closes = 1 <=> cancelled # "wait_until_ready")
    /\ closes = 1 => (pc = "done" /\ in_flight = {})

C3_ClosedOnceReady == []C3_Ended /\ [][closes = 0 /\ pc # "done"]_vars

\* C3, witness: the task was cancelled during a retry wait, with messages
\* already posted, and has closed
C3_Witness ==
    /\ pc = "done"
    /\ cancelled = "retry wait"
    /\ posted # <<>>
    /\ closes = 1

\* C4: a wrapped call that fails is called again with the same arguments
\* after a wait, without a ceiling; discord_retry returns only from a
\* successful call, and no exception of the wrapped call reaches
\* post_messages.
C4_Step ==
    retry.phase # "idle" =>
        /\ caught' = caught
        /\ retry'.phase # "idle" =>
            /\ retry'.args = retry.args
            /\ retry'.phase # retry.phase
            /\ posted' = posted
            /\ loop' = loop
            /\ pc' = pc
        /\ retry'.phase = "calling" => in_flight' = {retry.args}
        /\ retry'.phase = "idle" =>
            \/ /\ cancelled = "" /\ cancelled' # ""
               /\ posted' = posted
            \/ /\ retry.phase = "calling"
               /\ cancelled' = cancelled
               /\ posted' = Append(posted, Returned(retry.args, FALSE, retry))

C4_RetriesUntilSuccess == [][C4_Step]_task_vars

\* C4, witness: the same call is in flight again after MaxFail failures
C4_Witness ==
    /\ retry.phase = "calling"
    /\ retry.retry_count = MaxFail
    /\ in_flight = {CurrentCall}
    /\ retry.args = CurrentCall

\* C5: a wrapped call that fails n times and then succeeds was called n + 1
\* times with n waits, one after each failure and before the next call, and
\* is recorded as posted exactly once.
C5_CountsOfRetry ==
    /\ retry.phase = "calling" =>
        (retry.invocations = retry.retry_count + 1 /\ retry.waits = retry.retry_count)
    /\ retry.phase = "sleeping" =>
        (retry.invocations = retry.retry_count /\ retry.waits = retry.retry_count)
    /\ \A i \in 1..Len(posted) :
        /\ posted[i].invocations = posted[i].failures + 1
        /\ posted[i].waits = posted[i].failures
        /\ \A j \in 1..Len(posted) : posted[i].call = posted[j].call => i = j

\* C5, witness: a send that failed twice and then succeeded
C5_Witness ==
    \E i \in 1..Len(posted) :
        /\ posted[i].call.op = "send_msg_to_channel"
        /\ posted[i].failures = 2
        /\ posted[i].invocations = 3
        /\ posted[i].waits = 2

MissingChannel ==
    /\ ~create_channels
    /\ \E i \in 1..Len(parsed_messages) : text_channels[parsed_messages[i].k] = 0

\* C10: when a channel of the export does not exist and creation is
\* disabled, no message is sent to any channel, no channel is created, and
\* the task ends with the error of resolution caught and the client closed.
C10_MissingChannelIsFatal ==
    MissingChannel =>
        /\ posted = <<>>
        /\ in_flight = {}
        /\ pc \notin {"posting", "create_text_channel"}
        /\ (pc = "done" /\ cancelled = "") =>
            (caught \in {"RuntimeError", "UnboundLocalError"} /\ closes = 1)

\* C10, witness: the first channel exists, the second does not, and the task
\* has ended in the failure of resolution
C10_Witness ==
    /\ MissingChannel
    /\ Len(parsed_messages) = 2
    /\ text_channels[parsed_messages[1].k] = 1
    /\ DictHas(channels, parsed_messages[1].k)
    /\ pc = "done"
    /\ caught = "RuntimeError"
    /\ closes = 1

\* C11: the server is resolved only when exactly one server matches; with
\* zero or several matches resolution raises, no channel is resolved or
\* created and no message is posted.
C11_UniqueServer ==
    /\ (pc \in {"get_channel", "create_text_channel", "posting"}
            \/ channels # EmptyDict \/ posted # <<>> \/ in_flight # {})
        => guilds = 1
    /\ (pc \in {"finally", "done"} /\ guilds # 1 /\ cancelled = "")
        => /\ caught \in {"RuntimeError", "UnboundLocalError"}
           /\ channels = EmptyDict
           /\ posted = <<>>
           /\ in_flight = {}

\* C11, witness: two servers match, channels may be created, the export has
\* messages, and the task has ended with the error caught and nothing done
C11_Witness ==
    /\ guilds = 2
    /\ create_channels
    /\ ~dry_run
    /\ Len(parsed_messages) = 2
    /\ pc = "done"
    /\ caught = "RuntimeError"
    /\ closes = 1
    /\ channels = EmptyDict
    /\ posted = <<>>

\* a call named by its coroutine and the reply it is made for (0: the root)
Step(op, reply) == [op |-> op, reply |-> reply]

\* the steps for the replies of a thread from timestamp t on, in ascending
\* order of timestamp: the send, then the files of the reply if it has any
RECURSIVE ReplySteps(_, _)
ReplySteps(thread, t) ==
    IF t > MaxTs THEN <<>>
    ELSE (IF DictHas(thread, t)
          THEN <<Step("send_msg_to_thread", t)>>
               \o (IF DictGet(thread, t).files # <<>>
                   THEN <<Step("add_files_to_message", t)>> ELSE <<>>)
          ELSE <<>>)
         \o ReplySteps(thread, t + 1)

\* the steps of one root: the send, the files if it has any, and if it has
\* a thread dict the thread and the replies
StepsOfRoot(entry) ==
    <<Step("send_msg_to_channel", 0)>>
    \o (IF entry.msg.files # <<>> THEN <<Step("add_files_to_message", 0)>> ELSE <<>>)
    \o (IF entry.has_thread
        THEN <<Step("create_thread", 0)>> \o ReplySteps(entry.thread, 1)
        ELSE <<>>)

\* the positions in posted of the calls made for root ts of channel chan
PositionsOf(chan, ts) ==
    {x \in 1..Len(posted) : posted[x].call.chan = chan /\ posted[x].call.ts = ts}

\* the calls completed for the root are exactly its steps, in their order
\* and with no call for another root between them
PostedAsSteps(chan, ts, entry) ==
    LET at == PositionsOf(chan, ts)
        steps == StepsOfRoot(entry)
    IN  /\ Cardinality(at) = Len(steps)
        /\ at # {} =>
               LET first == CHOOSE x \in at : \A y \in at : x <= y
               IN  \A n \in 1..Len(steps) :
                       /\ (first + n - 1) \in at
                       /\ posted[first + n - 1].call.op = steps[n].op
                       /\ posted[first + n - 1].call.reply = steps[n].reply

\* C22: for each root the calls are, in this order: the send of the root,
\* its files if it has any, the thread if the root has a thread dict, and
\* for each reply its send and then its files if it has any; the calls of
\* one root are over before the send of the next.
C22_OrderPerRoot ==
    (RanThrough /\ ~dry_run) =>
        \A i \in 1..Len(parsed_messages) : \A r \in 1..Len(parsed_messages[i].v) :
            PostedAsSteps(parsed_messages[i].k, parsed_messages[i].v[r].k,
                          parsed_messages[i].v[r].v)

\* the create_thread calls completed for root ts of channel chan
ThreadsCreated(chan, ts) ==
    {x \in PositionsOf(chan, ts) : posted[x].call.op = "create_thread"}

\* C23: exactly one create_thread call is made for every root that has a
\* thread dict, an empty one included, and none for a root whose thread is
\* None.
C23_OneThreadPerThreadDict ==
    (RanThrough /\ ~dry_run) =>
        \A i \in 1..Len(parsed_messages) : \A r \in 1..Len(parsed_messages[i].v) :
            Cardinality(ThreadsCreated(parsed_messages[i].k, parsed_messages[i].v[r].k))
                = (IF parsed_messages[i].v[r].v.has_thread THEN 1 ELSE 0)

\* get_channel_by_name is about to look up a name that several text
\* channels of the server carry
ResolvingSeveral ==
    /\ pc = "get_channel"
    /\ loop.chan <= Len(parsed_messages)
    /\ text_channels[parsed_messages[loop.chan].k] > 1

SeveralMatch == \E i \in 1..Len(parsed_messages) : text_channels[parsed_messages[i].k] > 1

PostingFailed == caught # "" /\ loop.step > 0

\* the position of a channel name in parsed_messages
ChannelIndex(chan) == CHOOSE i \in 1..Len(parsed_messages) : parsed_messages[i].k = chan

\* C25: when an exception leaves the posting of one channel, no call is
\* made for a later channel, what was posted stays posted, and the task
\* goes straight to close and ends as it ends after a complete run.
C25_PostingStopsAtException ==
    /\ [][(caught = "" /\ caught' # "" /\ pc = "posting") =>
             (posted' = posted /\ in_flight' = {} /\ pc' = "finally")]_task_vars
    /\ [][PostingFailed =>
             (posted' = posted /\ in_flight' = {} /\ closes' = closes + 1 /\ pc' = "done")]_task_vars
    /\ [](PostingFailed =>
             /\ in_flight = {}
             /\ pc \in {"finally", "done"}
             /\ pc = "done" => closes = 1
             /\ \A x \in 1..Len(posted) : ChannelIndex(posted[x].call.chan) <= loop.chan)

\* the posting of the first of two channels raised after a message was
\* posted; the second channel has messages, none was posted, and the client
\* has closed
C25_Witness ==
    /\ PostingFailed
    /\ pc = "done"
    /\ closes = 1
    /\ Len(parsed_messages) = 2
    /\ loop.chan = 1
    /\ posted # <<>>
    /\ CallsOfChannel(2) # <<>>

\* the step leaves the loop of discord_retry
RetryExits == retry.phase # "idle" /\ retry'.phase = "idle"

\* the wrapped call succeeded and discord_retry returned
ExitBySuccess ==
    /\ retry.phase = "calling"
    /\ cancelled' = cancelled
    /\ caught' = caught
    /\ posted' = Append(posted, Returned(retry.args, FALSE, retry))

\* the operator cancelled the task while it was suspended at point
ExitByCancelAt(point) ==
    /\ cancelled = ""
    /\ cancelled' = point
    /\ posted' = posted

\* C29 as stated: the loop of discord_retry is left only by a successful
\* call or by a cancellation during a retry wait
C29_CancelOnlyAtWait ==
    [][RetryExits =>
          \/ ExitBySuccess
          \/ retry.phase = "sleeping" /\ ExitByCancelAt("retry wait")]_task_vars

\* C29, amended: the loop of discord_retry is left only by a successful
\* call or by a cancellation, which takes effect during a retry wait and
\* also while the wrapped call is awaited; a failure, however many came
\* before, leads to a wait and a wait to the next call.
C29_ExitBySuccessOrCancel ==
    /\ [][RetryExits =>
             \/ ExitBySuccess
             \/ retry.phase = "sleeping" /\ ExitByCancelAt("retry wait")
             \/ retry.phase = "calling" /\ ExitByCancelAt("remote call")]_task_vars
    /\ [][(retry.phase = "calling" /\ retry'.retry_count > retry.retry_count) =>
             (retry'.phase = "sleeping" /\ retry'.args = retry.args)]_task_vars
    /\ [][(retry.phase = "sleeping" /\ ~RetryExits) => retry'.phase = "calling"]_task_vars

\* the task was cancelled while a wrapped call was awaited, after other
\* calls had returned, and the client has closed
C29_Witness ==
    /\ cancelled = "remote call"
    /\ posted # <<>>
    /\ closes = 1

\* set_channels is running
Resolving == pc \in {"get_channel", "create_text_channel"}

\* a message has been sent or is being sent
Sending == pc = "posting" \/ posted # <<>>

\* C30: the map of channel names to handles is written only by
\* set_channels: every channel name of the export is resolved before the
\* first message is sent, the map then has exactly one entry for each of
\* them, and no entry is added, removed or changed afterwards.
C30_ChannelsWrittenOnce ==
    /\ [][channels' # channels => (Resolving /\ posted = <<>> /\ in_flight' = {})]_vars
    /\ [][Sending => channels' = channels]_vars
    /\ [](Sending =>
             /\ Len(channels) = Len(parsed_messages)
             /\ \A i \in 1..Len(parsed_messages) :
                    Cardinality({n \in 1..Len(channels) :
                                    channels[n].k = parsed_messages[i].k}) = 1)

\* two channels were resolved, the messages of the first were posted and
\* those of the second are being posted
C30_Witness ==
    /\ pc = "posting"
    /\ Len(parsed_messages) = 2
    /\ Len(channels) = 2
    /\ loop.chan = 2
    /\ posted # <<>>

\* C31: one posting task is created in a run, and before the client is
\* ready it resolves no channel and makes no remote call, however many
\* times the ready event is dispatched.
C31_OneTaskAfterReady ==
    /\ tasks <= 1
    /\ pc # "setup_hook" => tasks = 1
    /\ ready_events = 0 =>
           /\ pc \in {"setup_hook", "wait_until_ready", "done"}
           /\ guilds = 0
           /\ channels = EmptyDict
           /\ in_flight = {}
           /\ posted = <<>>

\* the ready event was dispatched twice; the one task has posted and closed
C31_Witness ==
    /\ ready_events = 2
    /\ tasks = 1
    /\ posted # <<>>
    /\ pc = "done"
    /\ closes = 1

\* the channel names set_channels has gone through
NamesBefore(n) == {parsed_messages[i].k : i \in 1..(n - 1)}

\* guild.create_text_channel is awaited: its call is the one call in flight,
\* for the channel name of the loop, which the server does not have and
\* which has no handle yet; discord_retry is not around it
Creating ==
    pc = "create_text_channel" =>
        LET channel_name == parsed_messages[loop.chan].k
        IN  /\ in_flight =
                   {Call("create_text_channel", channel_name, 0, 0, FALSE, NoContent, <<>>)}
            /\ retry = RetryIdle
            /\ text_channels[channel_name] = 0
            /\ create_channels /\ ~dry_run
            /\ KeySet(channels) = NamesBefore(loop.chan)

\* the failure of guild.create_text_channel ended the resolution: nothing
\* was sent, nothing is in flight or waiting, and the client is closed once
CreateFailed ==
    caught = "HTTPException" =>
        /\ pc \in {"finally", "done"}
        /\ posted = <<>>
        /\ in_flight = {}
        /\ retry = RetryIdle
        /\ closes = (IF pc = "done" THEN 1 ELSE 0)

\* C36: guild.create_text_channel is not wrapped by discord_retry.  It is
\* called once for a channel name the server does not have: the call is
\* made from the lookup of that name, and when it returns the loop goes to
\* the next name.  When it fails the exception goes to post_messages at
\* once: no channel is resolved after it, no message is sent, and the client
\* is closed.
C36_CreateNotRetried ==
    [][/\ (pc' = "create_text_channel" /\ pc # "create_text_channel") =>
              /\ pc = "get_channel"
              /\ loop' = loop
       /\ (pc = "create_text_channel" /\ pc' # "create_text_channel") =>
              \/ /\ pc' = "get_channel"
                 /\ loop'.chan = loop.chan + 1
                 /\ KeySet(channels') = NamesBefore(loop'.chan)
              \/ /\ pc' = "finally"
                 /\ caught' = "HTTPException" \/ cancelled' = "create_text_channel"
                 /\ channels' = channels
       /\ caught = "HTTPException" => channels' = channels /\ posted' = <<>>
       /\ Creating'
       /\ CreateFailed']_vars

\* the first channel was there, the creation of the second one failed:
\* one handle, no message sent, the client closed
C36_Witness ==
    /\ caught = "HTTPException"
    /\ pc = "done"
    /\ closes = 1
    /\ Len(channels) = 1
    /\ Len(parsed_messages) = 2
    /\ posted = <<>>
    /\ \E i \in 1..2 : Len(parsed_messages[i].v) > 0

(***************************************************************************)
(* Claims about functions, checked under SpecFunctions.                    *)
(***************************************************************************)
\* the characters of a name, head and padding, all belong to S, the padding
\* being digits
OnlyChars(name, S) ==
    /\ \A i \in 1..Len(name.head) : name.head[i] \in S
    /\ name.pad > 0 => Digit \in S

Stripped(n) == Name(IF n.hashes > 0 THEN n.hashes - 1 ELSE 0, n.base)

\* the modes of a configuration
FileMode(config) == config.src_file
DirMode(config) == ~config.src_file /\ config.src_dir # None
TreeMode(config) == ~config.src_file /\ config.src_dir = None /\ config.src_dirtree

\* the lines of a channel file that are not blank
Listed(config) == SelectSeq(config.lines, LAMBDA l : Len(l) > 0)

\* the entry of channel_map for the source key is the one the last line that
\* lists it asks for, the tokens read through Read
MappedAsListed(config, channel_map, key, AsRead(_)) ==
    LET listed == Listed(config)
        last == CHOOSE i \in 1..Len(listed) :
                    /\ AsRead(listed[i][1]) = key
                    /\ \A j \in (i + 1)..Len(listed) : AsRead(listed[j][1]) # key
    IN  DictGet(channel_map, key) =
            IF Len(listed[last]) = 2 THEN AsRead(listed[last][2]) ELSE key

\* channel_map is as C14 says, the names of the configuration and of the
\* channel file read through Read
ChannelMapAsClaimed(config, channel_map, AsRead(_)) ==
    /\ FileMode(config) =>
        channel_map = <<[k |-> None, v |-> AsRead(config.dest_channel)]>>
    /\ DirMode(config) =>
        channel_map = <<[k |-> config.src_dir,
                         v |-> IF config.dest_channel = None
                               THEN AsRead(config.src_dir)
                               ELSE AsRead(config.dest_channel)]>>
    /\ (TreeMode(config) /\ ~config.channel_file) =>
        /\ Len(channel_map) = Len(config.subdirs)
        /\ \A i \in 1..Len(config.subdirs) :
            /\ DictHas(channel_map, config.subdirs[i])
            /\ DictGet(channel_map, config.subdirs[i]) = config.subdirs[i]
    /\ (TreeMode(config) /\ config.channel_file) =>
        LET listed == Listed(config)
            sources == {AsRead(listed[i][1]) : i \in 1..Len(listed)}
        IN  /\ KeySet(channel_map) = sources
            /\ Len(channel_map) = Cardinality(sources)
            /\ \A key \in sources : MappedAsListed(config, channel_map, key, AsRead)

\* C14 as stated: the entries are keyed and mapped by the names as given
C14_NamesAsGiven ==
    (fn = "parse" /\ result.raised = "") =>
        ChannelMapAsClaimed(arg, result.channel_map, LAMBDA n : n)

\* C14, amended: the channel map has one entry keyed by None and mapped to
\* the destination name (single file); one entry keyed by the base name of
\* the directory and mapped to the destination override or else to that base
\* name (single directory); one entry per subdirectory mapped to its own name
\* (tree without a channel file); one entry per source listed in the channel
\* file, mapped to the second token of the last line listing it when it has
\* one and to the source otherwise (tree with a channel file); where every
\* destination name and every token of the channel file is taken without its
\* leading pound sign.
C14_ChannelMap ==
    (fn = "parse" /\ result.raised = "") =>
        ChannelMapAsClaimed(arg, result.channel_map, Stripped)

\* C14, witness: a channel file of two lines, "#a b" and "b", over an export
\* with the subdirectories a and b
C14_Witness ==
    /\ fn = "parse"
    /\ arg.channel_file
    /\ arg.subdirs = <<Name(0, "a"), Name(0, "b")>>
    /\ arg.lines = <<<<Name(1, "a"), Name(0, "b")>>, <<Name(0, "b")>>>>
    /\ result.raised = ""
    /\ result.channel_map = <<[k |-> Name(0, "a"), v |-> Name(0, "b")],
                              [k |-> Name(0, "b"), v |-> Name(0, "b")]>>

\* the first line of the channel file that set_channel_map cannot accept:
\* 0 if there is none
FirstBadLine(config) ==
    LET Bad(l) ==
            \/ Len(l) > 2
            \/ /\ Len(l) \in {1, 2}
               /\ \A i \in 1..Len(config.subdirs) : config.subdirs[i] # Stripped(l[1])
        bad == {i \in 1..Len(config.lines) : Bad(config.lines[i])}
    IN  IF bad = {} THEN 0 ELSE CHOOSE i \in bad : \A j \in bad : i <= j

\* C15: a line of the channel file whose source is not a subdirectory of the
\* export, and a line of more than two tokens, each make set_channel_map
\* raise, and then no channel is parsed; blank lines change nothing.
C15_ChannelFileErrors ==
    (fn = "parse" /\ TreeMode(arg) /\ arg.channel_file) =>
        LET bad == FirstBadLine(arg)
        IN  /\ bad = 0 <=> result.raised = ""
            /\ bad # 0 =>
                /\ result.raised =
                       IF Len(arg.lines[bad]) > 2 THEN "RuntimeError" ELSE "ValueError"
                /\ result.parse_channel = <<>>
            /\ bad = 0 => result.parse_channel = result.channel_map
            /\ result = parse([arg EXCEPT !.lines = Listed(arg)])

\* C15, witness: after a good line, a line names a source that is not in
\* the export
C15_Witness ==
    /\ fn = "parse"
    /\ arg.channel_file
    /\ arg.subdirs = <<Name(0, "a")>>
    /\ arg.lines = <<<<Name(0, "a")>>, <<Name(0, "b")>>>>
    /\ result.raised = "ValueError"
    /\ result.channel_map # EmptyDict
    /\ result.parse_channel = <<>>

\* the message a send or an add of files of the applied posting is made for
MessageOf(call) ==
    IF call.reply = 0 THEN arg.msg ELSE DictGet(arg.thread, call.reply)

IsSendCall(call) == call.op \in {"send_msg_to_channel", "send_msg_to_thread"}

PostingApplied == fn = "post_messages_to_channel"

\* C16: every send carries exactly min(n, 10) previews, n the number of
\* links of its message: the preview at each position is made from the link
\* at the same position, and a message without links carries none.
C16_EmbedsFirstTen ==
    PostingApplied =>
        \A c \in 1..Len(result) :
            IsSendCall(result[c]) =>
                LET links == MessageOf(result[c]).links
                    embeds == result[c].content.embeds
                    n == Len(links)
                IN  /\ Len(embeds) = (IF n < 10 THEN n ELSE 10)
                    /\ \A i \in 1..Len(embeds) : embeds[i].url = links[i].title_link
                    /\ n = 0 => embeds = <<>>

\* a send of a message with more than ten links, and one of a message
\* with none
C16_Witness ==
    /\ PostingApplied
    /\ \E c \in 1..Len(result) :
           /\ IsSendCall(result[c])
           /\ Len(MessageOf(result[c]).links) = 12
           /\ Len(result[c].content.embeds) = 10
           /\ result[c].content.embeds[10].url = 3
    /\ Len(result) > 3

\* the ids of the files not flagged not found, first to last
RECURSIVE FoundIds(_)
FoundIds(files) ==
    IF files = <<>> THEN <<>>
    ELSE (IF Head(files).not_found THEN <<>> ELSE <<Head(files).id>>)
         \o FoundIds(Tail(files))

IsAddFiles(call) == call.op = "add_files_to_message"

\* C17: the files of an add of files are exactly the files of its message
\* not flagged not found, in their order; none flagged not found is among
\* them.
C17_FoundFilesOnly ==
    PostingApplied =>
        \A c \in 1..Len(result) :
            IsAddFiles(result[c]) =>
                LET files == MessageOf(result[c]).files
                IN  /\ result[c].files = FoundIds(files)
                    /\ \A i \in 1..Len(files) :
                           files[i].not_found =>
                               \A j \in 1..Len(result[c].files) :
                                   result[c].files[j] # files[i].id

\* an add of files for a message whose first file is flagged not found and
\* whose second is not
C17_Witness ==
    /\ PostingApplied
    /\ \E c \in 1..Len(result) :
           /\ IsAddFiles(result[c])
           /\ Len(MessageOf(result[c]).files) = 2
           /\ MessageOf(result[c]).files[1].not_found
           /\ result[c].files = <<"F2">>

\* the config that get_config checked: the command line with the token that
\* get_token found
Checked == result.config

SourceModes(config) ==
    {m \in {"src_file", "src_dir", "src_dirtree"} : config[m].given}

\* the conditions of a legal configuration
Legal(config) ==
    /\ Cardinality(SourceModes(config)) = 1
    /\ config.src_file.given => config.dest_channel.given
    /\ config.src_dirtree.given => ~config.dest_channel.given
    /\ config.channel_file.value # "" => config.src_dirtree.given
    /\ config.token.value # ""

\* C18: get_config returns a configuration only if exactly one of the three
\* source modes is selected, a destination channel is given with a single
\* file and none with a directory tree, a channel file is named only with a
\* directory tree, and a token is set; with every other configuration it
\* exits with the usage instead of returning a configuration to parse or
\* post with.
C18_OnlyLegalConfigs ==
    fn = "get_config" => (~result.exit <=> Legal(Checked))

\* a directory tree with a channel file and no destination channel is
\* accepted, its token found outside the command line
C18_Witness ==
    /\ fn = "get_config"
    /\ ~result.exit
    /\ Checked.src_dirtree.given
    /\ Checked.channel_file = Given("x")
    /\ ~arg.args.token.given
    /\ Checked.token = Given("x")

Delimiters == {Asterisk, Tilde}

Plain(text) == \A i \in 1..Len(text) : text[i] \notin Delimiters

\* text is a single span of delimiter d around positions i+1..j-1: nothing
\* else in it is a delimiter, and what is enclosed is not empty and starts
\* and ends with a character that is not whitespace
SingleSpan(text, d, i, j) ==
    /\ i + 1 < j
    /\ text[i] = d /\ text[j] = d
    /\ \A k \in 1..Len(text) : k \notin {i, j} => text[k] \notin Delimiters
    /\ NonSpace(text[i + 1]) /\ NonSpace(text[j - 1])

Doubled(text, d, i, j) ==
    SubSeq(text, 1, i - 1) \o <<d, d>> \o SubSeq(text, i + 1, j - 1)
        \o <<d, d>> \o SubSeq(text, j + 1, Len(text))

\* C19: a text with a single bold span *x* or a single strikethrough span
\* ~x~ (x not empty, starting and ending with a character that is not
\* whitespace, without a delimiter) comes back with the delimiters of the
\* span doubled, and a text without delimiters comes back unchanged.
C19_SingleSpanDoubled ==
    fn = "fix_markdown" =>
        /\ \A d \in Delimiters : \A i, j \in 1..Len(arg) :
               SingleSpan(arg, d, i, j) => result = Doubled(arg, d, i, j)
        /\ Plain(arg) => result = arg

\* two Slack channels of channel_map, the first before the second, are
\* mapped to the same Discord channel
SameDestination(m, i, j) == i < j /\ m[i].v = m[j].v

ParseApplied == fn = "parse" /\ result.raised = ""

Generic(exc) == exc # "RateLimited"

\* the wait of the n-th retry when no failure is a rate limit
ScheduledWait(n) == IF n = 1 THEN 1 ELSE IF n = 2 THEN 5 ELSE 30

RetryApplied == fn = "discord_retry"

\* C27: when all failures of a call are generic, the waits before the
\* retries are 1, 5 and 30 seconds and 30 seconds from then on; a rate
\* limit is waited for exactly as long as the server says.
C27_BackoffSchedule ==
    RetryApplied =>
        \A c \in 1..2 :
            /\ Len(result[c].sleeps) = Len(arg[c])
            /\ (\A n \in 1..Len(arg[c]) : Generic(arg[c][n])) =>
                   \A n \in 1..Len(arg[c]) : result[c].sleeps[n] = ScheduledWait(n)
            /\ \A n \in 1..Len(arg[c]) :
                   ~Generic(arg[c][n]) => result[c].sleeps[n] = RetryAfter

\* five generic failures of one call: the waits were 1, 5, 30, 30, 30
C27_Witness ==
    /\ RetryApplied
    /\ Len(arg[2]) = 5
    /\ \A n \in 1..5 : Generic(arg[2][n])
    /\ result[2].sleeps = <<1, 5, 30, 30, 30>>
    /\ result[2].returned.invocations = 6

\* C28: the count of retries counts the failures of both kinds and starts
\* at zero for every call: the wait after a generic failure is the entry of
\* the schedule at min(k - 1, 2), k the number of failures of this call so
\* far, whatever the failures of the call before.
C28_CountPerCall ==
    RetryApplied =>
        \A c \in 1..2 :
            /\ result[c].returned.failures = Len(arg[c])
            /\ \A k \in 1..Len(arg[c]) :
                   Generic(arg[c][k]) =>
                       result[c].sleeps[k] = <<1, 5, 30>>[(IF k - 1 < 2 THEN k - 1 ELSE 2) + 1]

\* the first call failed twice; the second was rate limited, then failed
\* with another exception and waited 5 seconds
C28_Witness ==
    /\ RetryApplied
    /\ Len(arg[1]) = 2
    /\ Len(arg[2]) = 2
    /\ arg[2][1] = "RateLimited"
    /\ arg[2][2] = "Exception"
    /\ result[2].sleeps = <<RetryAfter, 5>>

\* C34 as stated: files are added to a sent message only if at least one of
\* its files is left once those flagged not found are excluded, so that
\* every add of files carries a file.
C34_AddsOnlyFoundFiles ==
    PostingApplied =>
        \A c \in 1..Len(result) :
            IsAddFiles(result[c]) => result[c].files # <<>>

\* C34, amended: files are added to a sent message only if the message has
\* at least one file, flagged not found or not; the add follows the send of
\* that message at once.
C34_AddsOnlyWithFiles ==
    PostingApplied =>
        \A c \in 1..Len(result) :
            IsAddFiles(result[c]) =>
                /\ MessageOf(result[c]).files # <<>>
                /\ c > 1
                /\ IsSendCall(result[c - 1])
                /\ result[c - 1].reply = result[c].reply

\* an add of files for a message whose two files are both flagged not
\* found: it carries no file
C34_Witness ==
    /\ PostingApplied
    /\ \E c \in 1..Len(result) :
           /\ IsAddFiles(result[c])
           /\ Len(MessageOf(result[c]).files) = 2
           /\ \A i \in 1..2 : MessageOf(result[c]).files[i].not_found
           /\ result[c].files = <<>>

NameApplied == fn = "get_name"

\* the name the user id gives when every first character is stripped
StrippedId(user_id) == from_1(user_id)

\* the first of: the name of the users dict, the display name, the full
\* name, the user id as by_id gives it, the placeholder
FirstAvailable(by_id(_)) ==
    LET user_id == arg.message.user
        user_profile == arg.message.user_profile
    IN  IF user_id \in DOMAIN arg.users
        THEN arg.users[user_id]
        ELSE IF user_profile # NoProfile /\ user_profile.display_name \notin {NoValue, ""}
        THEN user_profile.display_name
        ELSE IF user_profile # NoProfile /\ user_profile.real_name \notin {NoValue, ""}
        THEN user_profile.real_name
        ELSE IF user_id \notin {NoValue, ""}
        THEN by_id(user_id)
        ELSE "???"

\* the user id without its leading U, whole when it starts otherwise
StrippedOfU(user_id) ==
    IF Head(StrChars[user_id]) = "U" THEN from_1(user_id) ELSE user_id

\* C37 as stated: get_name returns the first available of the name of the
\* users dict for the user id, the display name of the message, its full
\* name, the user id without its first character, and '???'.
C37_NameOrderStripped ==
    NameApplied => result = FirstAvailable(StrippedId)

\* C37, amended: get_name returns the first available of the name of the
\* users dict for the user id, the display name of the message, its full
\* name, the user id without its first character when that is U and whole
\* otherwise, and '???'; it returns a name whichever of them are missing.
C37_NameOrder ==
    NameApplied =>
        /\ result = FirstAvailable(StrippedOfU)
        /\ result \in {"alice", "dana", "Dana R", "1", "W1", "", "???"}

\* the user id W1 is not in the users dict and the message has an empty
\* display name and no full name: the name is the whole id
C37_Witness ==
    /\ NameApplied
    /\ arg.message.user = "W1"
    /\ "W1" \notin DOMAIN arg.users
    /\ arg.message.user_profile.display_name = ""
    /\ arg.message.user_profile.real_name = NoValue
    /\ result = "W1"

\* C38: unescape_text undoes the export's escaping: for every text, the
\* text the export makes of it by writing &amp; for &, &lt; for < and &gt;
\* for > is unescaped to the text itself.
C38_UnescapeInverts ==
    fn = "unescape_text" => result.unescaped = arg

DownloadApplied == fn = "download"

\* how many of the files handled were handled as kind
Handled(kind) ==
    Cardinality({i \in 1..Len(result.handled) : result.handled[i] = kind})

\* C39: when download returns, every file was counted once, as downloaded,
\* as not found or as skipped, so the three counts add up to the number of
\* files; a file is flagged not_found only if ignore_not_found is set and
\* the server answered not found for it.  Without ignore_not_found, a file
\* fetched and not found makes download raise.
C39_DownloadCounts ==
    DownloadApplied =>
        /\ ~result.raised =>
               /\ Len(result.handled) = Len(arg.files)
               /\ result.success = Handled("success")
               /\ result.not_found = Handled("not_found")
               /\ result.skipped = Handled("skipped")
               /\ result.success + result.not_found + result.skipped = Len(arg.files)
               /\ Len(result.files) = Len(arg.files)
               /\ \A i \in 1..Len(result.files) :
                      /\ result.files[i].id = arg.files[i].id
                      /\ result.files[i].not_found =>
                             /\ arg.ignore_not_found
                             /\ arg.status[arg.files[i].id] = "not_found"
                      /\ result.files[i].not_found <=> result.handled[i] = "not_found"
        /\ (/\ ~arg.ignore_not_found
            /\ \E i \in 1..Len(arg.files) : arg.status[arg.files[i].id] = "not_found")
               => result.raised

\* three files, one downloaded, one found in the downloads dir and one
\* not found and ignored: one of each count, the last one flagged
C39_Witness ==
    /\ DownloadApplied
    /\ ~result.raised
    /\ arg.ignore_not_found
    /\ Len(arg.files) = 3
    /\ result.handled = <<"success", "skipped", "not_found">>
    /\ result.success = 1 /\ result.skipped = 1 /\ result.not_found = 1
    /\ result.files[3].not_found
    /\ ~result.files[1].not_found

(***************************************************************************)
(* Claims about termination of the posting task, checked under SpecLive.   *)
(***************************************************************************)
\* the number of entries of posted that satisfy Test
CountPosted(Test(_)) == Cardinality({i \in 1..Len(posted) : Test(posted[i])})

\* every root and every reply of every channel has exactly one recorded
\* send, and there is no other send
OneSendEach ==
    /\ \A c \in 1..Len(parsed_messages) :
        LET name == parsed_messages[c].k
            d == parsed_messages[c].v
        IN  \A r \in 1..Len(d) :
            LET IsRootSend(e) ==
                    /\ e.call.op = "send_msg_to_channel"
                    /\ e.call.chan = name /\ e.call.ts = d[r].k
                    /\ ~e.result_none
            IN  /\ CountPosted(IsRootSend) = 1
                /\ \A t \in 1..Len(d[r].v.thread) :
                    LET IsReplySend(e) ==
                            /\ e.call.op = "send_msg_to_thread"
                            /\ e.call.chan = name /\ e.call.ts = d[r].k
                            /\ e.call.reply = d[r].v.thread[t].k
                            /\ ~e.result_none
                    IN  CountPosted(IsReplySend) = 1
    /\ LET IsSend(e) == e.call.op \in {"send_msg_to_channel", "send_msg_to_thread"}
           Messages ==
               UNION {UNION {{<<c, r, t>> : t \in 0..Len(parsed_messages[c].v[r].v.thread)}
                             : r \in 1..Len(parsed_messages[c].v)}
                      : c \in 1..Len(parsed_messages)}
       IN  CountPosted(IsSend) = Cardinality(Messages)

====
